---- MODULE Spec2Model ----
(***************************************************************************)
(* Model of awair's ParquetStorage (src/src/awair/storage.py): a session   *)
(* (context manager) over a Parquet file that loads the file into an       *)
(* in-memory DataFrame, merges inserted batches by timestamp under a       *)
(* conflict policy, and writes the sorted DataFrame back on exit.          *)
(*                                                                         *)
(* A DataFrame is a sequence of rows; a row is a record with the columns   *)
(* FIELDS.  A Parquet file is a record [exists, readable, rows].  The     *)
(* storage object's _batch_df is a record [isNone, rows].  The commands     *)
(* that write Parquet files without a session (shard, the updater's        *)
(* initial file, the rewrite script) are steps of their own.               *)
(*                                                                         *)
(* The second part models the raw command (src/src/awair/cli/raw.py):      *)
(* fetch_raw_data, which turns the endpoint's payload into rows, and       *)
(* fetch_date_range, which walks the window end back from `to` to `from`   *)
(* and hands every page to the storage session or to stdout.               *)
(*                                                                         *)
(* The later parts model parse_flexible_datetime (src/src/awair/dt.py),    *)
(* the hist command (src/src/awair/cli/data_cmd.py), get_devices and its   *)
(* cache file (src/src/awair/cli/config.py) and Database.insert_air_data   *)
(* (src/src/awair/database.py).                                            *)
(***************************************************************************)
EXTENDS Integers, Sequences, FiniteSets, TLC

\* ---------------------------------------------------------------- bounds
\* timestamps are the wall-clock seconds 1..MaxTs
MaxTs == 2
\* a batch handed to insert_air_data has at most MaxBatch rows
MaxBatch == 2

\* ------------------------------------------------------------- constants
VAL_FIELDS == <<"temp", "co2", "pm10", "pm25", "humid", "voc">>
FIELDS == <<"timestamp">> \o VAL_FIELDS

Policies == {"error", "warn", "replace"}

\* the storage objects and the paths they can be constructed on
Objs == {1, 2}
Paths == {1, 2}

\* the sensor values a reading at timestamp t can carry: a base reading, and
\* one that differs from it in one field (temp at t = 1, co2 at t = 2, ...)
BaseVals == [temp |-> 70, co2 |-> 400, pm10 |-> 5, pm25 |-> 3, humid |-> 40, voc |-> 100]
ValPool(t) == {BaseVals, [BaseVals EXCEPT ![VAL_FIELDS[((t - 1) % Len(VAL_FIELDS)) + 1]] = @ + 1]}

\* a timestamp as the caller passes it: wall-clock seconds and a zone suffix
\* ("" for a naive string, "Z" for a UTC string)
Zones == {"", "Z"}

\* datetime.timedelta(hours=..., minutes=..., seconds=...), in seconds
timedelta(hours, minutes, seconds) == (hours * 60 + minutes) * 60 + seconds

\* the seconds of a day
SecondsPerDay == timedelta(24, 0, 0)

MkRow(t, v) ==
    [timestamp |-> t, temp |-> v.temp, co2 |-> v.co2, pm10 |-> v.pm10,
     pm25 |-> v.pm25, humid |-> v.humid, voc |-> v.voc]

\* rows as stored in a DataFrame (timestamps naive)
RowPool == UNION {{MkRow(t, v) : v \in ValPool(t)} : t \in 1..MaxTs}

\* rows as passed to insert_air_data, all timestamps of a batch in zone z
RawPool(z) == UNION {{MkRow([wall |-> t, tz |-> z], v) : v \in ValPool(t)} : t \in 1..MaxTs}

SeqsUpTo(S, n) == UNION {[1..k -> S] : k \in 0..n}

\* the batches a caller can pass (the empty one included)
Batches == UNION {SeqsUpTo(RawPool(z), MaxBatch) : z \in Zones}

\* ------------------------------------------------------ DataFrame helpers
Idx(df) == 1..Len(df)

RECURSIVE Pick(_, _, _)
\* the rows of df at the positions in I, in df's order
Pick(df, I, i) ==
    IF i > Len(df) THEN <<>>
    ELSE (IF i \in I THEN <<df[i]>> ELSE <<>>) \o Pick(df, I, i + 1)

\* pd.to_datetime(ts).tz_localize(None): the wall-clock time without the zone
tz_localize_none(ts) == ts.wall

\* new_df = pd.DataFrame(data) with its timestamp column made naive
to_naive_df(data) ==
    [i \in Idx(data) |-> [data[i] EXCEPT !.timestamp = tz_localize_none(@)]]

\* duplicated that marks every occurrence of a repeated timestamp, whatever keep is
duplicated_marks_all(df, keep) ==
    {i \in Idx(df) : \E j \in Idx(df) : j # i /\ df[j].timestamp = df[i].timestamp}

\* df.duplicated(subset=['timestamp'], keep=keep): the positions marked True
duplicated(df, keep) ==
    {i \in Idx(df) :
        \E j \in Idx(df) :
            /\ df[j].timestamp = df[i].timestamp
            /\ CASE keep = "first" -> j < i
                 [] keep = "last"  -> j > i
                 [] OTHER          -> j # i}

\* drop_duplicates that removes nothing
drop_duplicates_keeps_all(df, keep) == df

\* df.drop_duplicates(subset=['timestamp'], keep=keep)
drop_duplicates(df, keep) == Pick(df, Idx(df) \ duplicated(df, keep), 1)

\* group.drop_duplicates() of the group of timestamp t: its distinct rows
unique_rows(df, t) == {df[i] : i \in {j \in Idx(df) : df[j].timestamp = t}}

\* conflicts whose loop over the fields misses the first of VAL_FIELDS
conflicts_skips_temp(df, t) ==
    {k \in 2..Len(VAL_FIELDS) :
        Cardinality({r[VAL_FIELDS[k]] : r \in unique_rows(df, t)}) > 1}

\* the VAL_FIELDS in which the distinct rows of timestamp t disagree
conflicts(df, t) ==
    {k \in 1..Len(VAL_FIELDS) :
        Cardinality({r[VAL_FIELDS[k]] : r \in unique_rows(df, t)}) > 1}

\* conflict_timestamps that takes every repeated timestamp for a conflict
conflict_timestamps_any_repeat(df) ==
    {df[i].timestamp : i \in duplicated(df, "False")}

\* the timestamps of duplicated_timestamps.groupby('timestamp') at which the
\* loop sets conflict_found
conflict_timestamps(df) ==
    {t \in {df[i].timestamp : i \in duplicated(df, "False")} :
        /\ Cardinality(unique_rows(df, t)) > 1
        /\ conflicts(df, t) # {}}

conflict_found(df) == conflict_timestamps(df) # {}

\* new_batch_df that keeps the last occurrence on any conflict, whatever the policy
new_batch_df_last_on_conflict(combined_df, action) ==
    IF conflict_found(combined_df)
    THEN drop_duplicates(combined_df, "last")
    ELSE drop_duplicates(combined_df, "first")

\* new_batch_df that always keeps the first occurrence
new_batch_df_always_first(combined_df, action) ==
    drop_duplicates(combined_df, "first")

\* the new _batch_df chosen from combined_df
new_batch_df(combined_df, action) ==
    IF conflict_found(combined_df) /\ action = "replace"
    THEN drop_duplicates(combined_df, "last")
    ELSE drop_duplicates(combined_df, "first")

RECURSIVE sort_insert_descending(_, _)
\* sort_insert with the comparison turned round
sort_insert_descending(s, r) ==
    IF s = <<>> THEN <<r>>
    ELSE IF Head(s).timestamp >= r.timestamp
         THEN <<Head(s)>> \o sort_insert_descending(Tail(s), r)
         ELSE <<r>> \o s

RECURSIVE sort_insert(_, _)
\* r put into the sorted sequence s after the rows with timestamp <= r's
sort_insert(s, r) ==
    IF s = <<>> THEN <<r>>
    ELSE IF Head(s).timestamp <= r.timestamp
         THEN <<Head(s)>> \o sort_insert(Tail(s), r)
         ELSE <<r>> \o s

RECURSIVE sort_values(_)
\* df.sort_values('timestamp').reset_index(drop=True)
sort_values(df) ==
    IF df = <<>> THEN <<>>
    ELSE sort_insert(sort_values(SubSeq(df, 1, Len(df) - 1)), df[Len(df)])

Max0(n) == IF n > 0 THEN n ELSE 0


\* ------------------------------------------------------------------ state
VARIABLES
    file,             \* Paths -> [exists, readable, rows]: the Parquet file at each path
    file_path,        \* Objs -> Paths: self.file_path
    conflict_action,  \* Objs -> Policies: self.conflict_action
    batch_df,         \* Objs -> [isNone, rows]: self._batch_df
    dirty,            \* Objs -> BOOLEAN: self._dirty
    exc,              \* Objs -> BOOLEAN: an exception is propagating out of the with block
    atOpen,           \* Objs -> [exists, rows]: the file as __enter__ found it (history)
    mutated,          \* Objs -> BOOLEAN: an insert of this session changed the buffer's rows (history)
    last,             \* the last operation: its arguments, the state before it, its result (history)
    script,           \* the batches of the scripted sessions and what is left of them
    fetch,            \* the locals of fetch_date_range and where it stands
    api               \* the endpoint: its readings, what it has answered so far (history),
                      \* and, for a single fetch_raw_data call, its reply and the call's result

vars == <<file, file_path, conflict_action, batch_df, dirty, exc, atOpen, mutated, last, script,
          fetch, api>>

\* the variables of the storage objects and their files
storage_vars == <<file, file_path, conflict_action, batch_df, dirty, exc, atOpen, mutated, last>>

None == [isNone |-> TRUE, rows |-> <<>>]
DataFrame(rows) == [isNone |-> FALSE, rows |-> rows]

\* no file at the path; a file that pd.read_parquet can read; a file whose
\* read fails with an OSError other than FileNotFoundError (permission, I/O)
Absent == [exists |-> FALSE, readable |-> TRUE, rows |-> <<>>]
Parquet(rows) == [exists |-> TRUE, readable |-> TRUE, rows |-> rows]
Unreadable(rows) == [exists |-> TRUE, readable |-> FALSE, rows |-> rows]

RowSet(df) == {df[i] : i \in Idx(df)}
Timestamps(df) == {df[i].timestamp : i \in Idx(df)}

StrictlyIncreasing(df) ==
    \A i \in Idx(df) : \A j \in Idx(df) : i < j => df[i].timestamp < df[j].timestamp

\* the files a session can find at a path: none, or one with its rows (if
\* any) in strictly increasing timestamp order, as an earlier session or the
\* shard command wrote it or, without rows, as the updater created it
SessionFiles ==
    {Absent} \cup {Parquet(rows) : rows \in {r \in SeqsUpTo(RowPool, MaxTs) : StrictlyIncreasing(r)}}

\* pd.read_parquet(path) raises FileNotFoundError or another OSError
read_parquet_fails(f) == ~f.exists \/ ~f.readable

\* pd.read_parquet(path) under try/except (FileNotFoundError, OSError):
\* the file's rows, or the empty DataFrame(columns=FIELDS) when the read fails
read_parquet_or_empty(f) == IF read_parquet_fails(f) THEN <<>> ELSE f.rows

\* A size in megabytes is a number of bytes over the bytes per megabyte; the
\* number of bytes of a Parquet file is that of the encoding of its rows,
\* which its content determines and which is never 0.  `return 0` is ZeroSize.
ZeroSize == [bytes |-> <<>>, per_mb |-> 1]

NoSummary == [count |-> 0, earliest |-> <<>>, latest |-> <<>>, file_size_mb |-> ZeroSize]

NoLast ==
    [op |-> "init", obj |-> 0, new_df |-> <<>>, before |-> None, dirtyBefore |-> FALSE,
     fileBefore |-> Absent, ret |-> 0, retTs |-> <<>>, summary |-> NoSummary,
     raised |-> FALSE, exc |-> FALSE]

\* no shard command is running
NoShard ==
    [pc |-> "idle", data_path |-> 0, dry_run |-> FALSE, df |-> <<>>, months |-> <<>>, count |-> 0]

NoScript ==
    [A |-> <<>>, B |-> <<>>, todo |-> [o \in Objs |-> <<>>], returned |-> [o \in Objs |-> 0],
     shard |-> NoShard]

\* what an operation of object o records before it acts
Call(op, o) ==
    [NoLast EXCEPT !.op = op, !.obj = o, !.before = batch_df[o],
                   !.dirtyBefore = dirty[o], !.fileBefore = file[file_path[o]]]

\* no fetch_date_range has been called
NoFetch ==
    [pc |-> "idle", storage |-> FALSE, start_date |-> 0, end_date |-> 0, current_end |-> 0,
     limit |-> 0, total_inserted |-> 0, total_requests |-> 0, printed |-> 0, record_count |-> 0]

\* an endpoint without readings that has answered nothing
NoApi ==
    [readings |-> {}, response |-> "", pages |-> 0, errors |-> 0, limited_at |-> 0,
     stalls |-> 0, monotone |-> TRUE, seen |-> {}, oldest |-> <<>>,
     reply |-> [status |-> 0, data |-> <<>>],
     result |-> [raised |-> FALSE, success |-> FALSE, error |-> "", data |-> <<>>,
                 actual_from |-> <<>>]]

NotFetching == fetch = NoFetch /\ api = NoApi

\* ParquetStorage(file_path, conflict_action) for each object; no session open
Constructed(paths, actions) ==
    /\ file_path = paths
    /\ conflict_action = actions
    /\ batch_df = [o \in Objs |-> None]
    /\ dirty = [o \in Objs |-> FALSE]
    /\ exc = [o \in Objs |-> FALSE]
    /\ atOpen = [o \in Objs |-> Absent]
    /\ mutated = [o \in Objs |-> FALSE]
    /\ last = NoLast

\* ---------------------------------------------------------------- actions

\* with ParquetStorage(...) as storage: __enter__
enter(o) ==
    /\ batch_df[o].isNone
    /\ batch_df' = [batch_df EXCEPT ![o] = DataFrame(read_parquet_or_empty(file[file_path[o]]))]
    /\ dirty' = [dirty EXCEPT ![o] = FALSE]
    /\ atOpen' = [atOpen EXCEPT ![o] = file[file_path[o]]]
    /\ mutated' = [mutated EXCEPT ![o] = FALSE]
    /\ last' = Call("enter", o)
    /\ UNCHANGED <<file, file_path, conflict_action, exc>>

\* __exit__ that saves whether or not the session is dirty
exit_saves_always(o) ==
    /\ ~batch_df[o].isNone
    /\ file' = [file EXCEPT ![file_path[o]] = Parquet(sort_values(batch_df[o].rows))]
    /\ batch_df' = [batch_df EXCEPT ![o] = None]
    /\ dirty' = [dirty EXCEPT ![o] = FALSE]
    /\ exc' = [exc EXCEPT ![o] = FALSE]
    /\ last' = [Call("exit", o) EXCEPT !.exc = exc[o]]
    /\ UNCHANGED <<file_path, conflict_action, atOpen, mutated>>

\* __exit__ that saves the buffer's rows next to the rows the file has by then
exit_merges_with_file(o) ==
    /\ ~batch_df[o].isNone
    /\ file' = IF dirty[o] /\ ~batch_df[o].isNone
               THEN [file EXCEPT ![file_path[o]] =
                        Parquet(sort_values(drop_duplicates(
                            batch_df[o].rows \o read_parquet_or_empty(file[file_path[o]]),
                            "first")))]
               ELSE file
    /\ batch_df' = [batch_df EXCEPT ![o] = None]
    /\ dirty' = [dirty EXCEPT ![o] = FALSE]
    /\ exc' = [exc EXCEPT ![o] = FALSE]
    /\ last' = [Call("exit", o) EXCEPT !.exc = exc[o]]
    /\ UNCHANGED <<file_path, conflict_action, atOpen, mutated>>

\* the end of the with block: __exit__(exc_type, exc_val, exc_tb), with
\* exc_type set when an exception is propagating
exit(o) ==
    /\ ~batch_df[o].isNone
    /\ file' = IF dirty[o] /\ ~batch_df[o].isNone
               THEN [file EXCEPT ![file_path[o]] = Parquet(sort_values(batch_df[o].rows))]
               ELSE file
    /\ batch_df' = [batch_df EXCEPT ![o] = None]
    /\ dirty' = [dirty EXCEPT ![o] = FALSE]
    /\ exc' = [exc EXCEPT ![o] = FALSE]
    /\ last' = [Call("exit", o) EXCEPT !.exc = exc[o]]
    /\ UNCHANGED <<file_path, conflict_action, atOpen, mutated>>

\* the early return that ignores an open session: only an empty batch is skipped
nothing_to_insert_empty_only(o, data) == data = <<>>

\* `if not data or self._batch_df is None: return 0`
nothing_to_insert(o, data) == data = <<>> \/ batch_df[o].isNone

\* the dirty mark set by every insert that reaches the end
marks_dirty_always(inserted_count) == inserted_count >= 0

\* `if inserted_count > 0: self._dirty = True`
marks_dirty(inserted_count) == inserted_count > 0

\* insert_air_data that stores the combined rows before it looks for conflicts
insert_in_memory_stores_before_raise(o, data) ==
    /\ ~exc[o]
    /\ IF nothing_to_insert(o, data)
       THEN /\ last' = [Call("insert", o) EXCEPT !.new_df = to_naive_df(data), !.ret = 0]
            /\ UNCHANGED <<batch_df, dirty, exc, mutated>>
       ELSE LET new_df == to_naive_df(data)
                original_count == Len(batch_df[o].rows)
                combined_df == batch_df[o].rows \o new_df
            IN  IF conflict_action[o] = "error" /\ conflict_found(combined_df)
                THEN /\ exc' = [exc EXCEPT ![o] = TRUE]
                     /\ batch_df' = [batch_df EXCEPT ![o] = DataFrame(drop_duplicates(combined_df, "first"))]
                     /\ last' = [Call("insert", o) EXCEPT !.new_df = new_df, !.raised = TRUE]
                     /\ UNCHANGED <<dirty, mutated>>
                ELSE \E result \in {new_batch_df(combined_df, conflict_action[o])} :
                     LET inserted_count == Len(result) - original_count
                     IN  /\ batch_df' = [batch_df EXCEPT ![o] = DataFrame(result)]
                         /\ dirty' = [dirty EXCEPT ![o] = marks_dirty(inserted_count) \/ @]
                         /\ mutated' = [mutated EXCEPT ![o] = @ \/ RowSet(result) # RowSet(batch_df[o].rows)]
                         /\ last' = [Call("insert", o) EXCEPT !.new_df = new_df, !.ret = Max0(inserted_count)]
                         /\ UNCHANGED exc

\* the body of insert_air_data(data): its effect on the object
insert_in_memory(o, data) ==
    /\ ~exc[o]
    /\ IF nothing_to_insert(o, data)
       THEN /\ last' = [Call("insert", o) EXCEPT !.new_df = to_naive_df(data), !.ret = 0]
            /\ UNCHANGED <<batch_df, dirty, exc, mutated>>
       ELSE LET new_df == to_naive_df(data)
                original_count == Len(batch_df[o].rows)
                combined_df == batch_df[o].rows \o new_df
            IN  IF conflict_action[o] = "error" /\ conflict_found(combined_df)
                THEN /\ exc' = [exc EXCEPT ![o] = TRUE]
                     /\ last' = [Call("insert", o) EXCEPT !.new_df = new_df, !.raised = TRUE]
                     /\ UNCHANGED <<batch_df, dirty, mutated>>
                ELSE \E result \in {new_batch_df(combined_df, conflict_action[o])} :
                     LET inserted_count == Len(result) - original_count
                     IN  /\ batch_df' = [batch_df EXCEPT ![o] = DataFrame(result)]
                         /\ dirty' = [dirty EXCEPT ![o] = marks_dirty(inserted_count) \/ @]
                         /\ mutated' = [mutated EXCEPT ![o] = @ \/ RowSet(result) # RowSet(batch_df[o].rows)]
                         /\ last' = [Call("insert", o) EXCEPT !.new_df = new_df, !.ret = Max0(inserted_count)]
                         /\ UNCHANGED exc

\* insert_air_data that also writes the grown buffer to the file
insert_air_data_writes_through(o, data) ==
    /\ insert_in_memory(o, data)
    /\ file' = IF dirty'[o]
               THEN [file EXCEPT ![file_path[o]] = Parquet(sort_values(batch_df'[o].rows))]
               ELSE file
    /\ UNCHANGED <<file_path, conflict_action, atOpen>>

\* storage.insert_air_data(data): nothing but the object changes
insert_air_data(o, data) ==
    /\ insert_in_memory(o, data)
    /\ UNCHANGED <<file, file_path, conflict_action, atOpen>>

\* a malformed payload item makes fetch_raw_data raise inside the with block
fetcher_raises(o) ==
    /\ ~batch_df[o].isNone
    /\ ~exc[o]
    /\ exc' = [exc EXCEPT ![o] = TRUE]
    /\ last' = [Call("fetch", o) EXCEPT !.raised = TRUE]
    /\ UNCHANGED <<file, file_path, conflict_action, batch_df, dirty, atOpen, mutated>>

\* get_record_count that reads the file whether or not a session is open
get_record_count_from_file(o) ==
    /\ ~exc[o]
    /\ last' = [Call("count", o) EXCEPT
                   !.ret = Len(read_parquet_or_empty(file[file_path[o]]))]
    /\ UNCHANGED <<file, file_path, conflict_action, batch_df, dirty, exc, atOpen, mutated>>

\* storage.get_record_count()
get_record_count(o) ==
    /\ ~exc[o]
    /\ last' = [Call("count", o) EXCEPT
                   !.ret = IF ~batch_df[o].isNone
                           THEN Len(batch_df[o].rows)
                           ELSE Len(read_parquet_or_empty(file[file_path[o]]))]
    /\ UNCHANGED <<file, file_path, conflict_action, batch_df, dirty, exc, atOpen, mutated>>

MaxTimestamp(df) == CHOOSE t \in Timestamps(df) : \A u \in Timestamps(df) : u <= t

\* storage.get_latest_timestamp(): <<>> for None, <<t>> for the timestamp t
get_latest_timestamp(o) ==
    /\ ~exc[o]
    /\ LET df == IF ~batch_df[o].isNone
                 THEN batch_df[o].rows
                 ELSE read_parquet_or_empty(file[file_path[o]])
       IN  last' = [Call("latest", o) EXCEPT
                       !.retTs = IF df = <<>> THEN <<>> ELSE <<MaxTimestamp(df)>>]
    /\ UNCHANGED <<file, file_path, conflict_action, batch_df, dirty, exc, atOpen, mutated>>

MinTimestamp(df) == CHOOSE t \in Timestamps(df) : \A u \in Timestamps(df) : t <= u

\* the paths that start with 's3://': none of Paths, the local paths on
\* which the specifications construct their objects
S3Paths == {3}

\* `self.file_path.startswith('s3://')`
is_s3(path) == path \in S3Paths

\* os.path.getsize(path), and ContentLength of the S3 object: the bytes of
\* the file
getsize(f) == [parquet |-> f.rows]

\* `... / (1024 * 1024)`
megabytes(bytes) == [bytes |-> <<bytes>>, per_mb |-> 1024 * 1024]

SizeReturned(size) == [raised |-> "", size |-> size]
SizeRaised(error) == [raised |-> error, size |-> ZeroSize]

\* _get_file_size() of the object on path, f being the file there and boto3
\* telling whether the boto3 package can be imported; head_object raises
\* ClientError for a key that does not exist
get_file_size(path, f, boto3) ==
    IF is_s3(path)
    THEN IF ~boto3 THEN SizeRaised("ImportError")
         ELSE IF f.exists THEN SizeReturned(megabytes(getsize(f)))
         ELSE SizeRaised("ClientError")
    ELSE IF f.exists THEN SizeReturned(megabytes(getsize(f)))
    ELSE SizeReturned(ZeroSize)

\* storage.get_data_summary()
get_data_summary(o) ==
    /\ ~exc[o]
    /\ \E boto3 \in (IF is_s3(file_path[o]) THEN BOOLEAN ELSE {TRUE}) :
       LET f == file[file_path[o]]
           df == IF ~batch_df[o].isNone THEN batch_df[o].rows ELSE read_parquet_or_empty(f)
           file_size_mb == IF ~batch_df[o].isNone
                           THEN (IF df = <<>> THEN SizeReturned(ZeroSize)
                                 ELSE get_file_size(file_path[o], f, boto3))
                           ELSE (IF read_parquet_fails(f) THEN SizeReturned(ZeroSize)
                                 ELSE get_file_size(file_path[o], f, boto3))
       IN  IF file_size_mb.raised # ""
           THEN /\ last' = [Call("summary", o) EXCEPT !.raised = TRUE]
                /\ exc' = [exc EXCEPT ![o] = ~batch_df[o].isNone]
           ELSE /\ last' = [Call("summary", o) EXCEPT
                       !.summary = [count |-> Len(df),
                                    earliest |-> IF df = <<>> THEN <<>> ELSE <<MinTimestamp(df)>>,
                                    latest |-> IF df = <<>> THEN <<>> ELSE <<MaxTimestamp(df)>>,
                                    file_size_mb |-> file_size_mb.size]]
                /\ UNCHANGED exc
    /\ UNCHANGED <<file, file_path, conflict_action, batch_df, dirty, atOpen, mutated>>

\* ------------------------------------------- writers outside the sessions
\* The shard command (src/src/awair/cli/data.py), the updater
\* (src/src/awair/lmbda/updater.py, src/src/awair/lambda/updater.py) and the
\* rewrite script (src/scripts/rewrite_parquet_row_groups.py) write Parquet
\* files themselves, not through __exit__.

\* the days of the months of 1970, the year of the timestamps 1..MaxTs
MonthDays == <<31, 28, 31, 30, 31, 30, 31, 31, 30, 31, 30, 31>>

RECURSIVE month_of(_, _)
\* the month of the day-th day (from 0) of 1970, counted from month m
month_of(day, m) ==
    IF m = Len(MonthDays) \/ day < MonthDays[m] THEN m
    ELSE month_of(day - MonthDays[m], m + 1)

\* df['timestamp'].dt.strftime('%Y-%m'): the year and the month
year_month(timestamp) == <<1970, month_of(timestamp \div SecondsPerDay, 1)>>

\* f'{output_base}/{year_month}.parquet' among Paths: path 2 is the file of
\* January 1970 under the directory of the single file at path 1; the other
\* monthly files are not among the files followed
output_path(data_path, ym) == IF data_path = 1 /\ ym = <<1970, 1>> THEN {2} ELSE {}

\* what a command that is not an operation of a storage object records
Command(op) == [NoLast EXCEPT !.op = op]

RECURSIVE sorted(_)
\* sorted(groups): the months in order
sorted(groups) ==
    IF groups = {} THEN <<>>
    ELSE LET first == CHOOSE ym \in groups :
                          \A other \in groups :
                              ym[1] < other[1] \/ (ym[1] = other[1] /\ ym[2] <= other[2])
         IN  <<first>> \o sorted(groups \ {first})

\* `awair data shard -d data_path [--dry-run]`, its beginning: the file is
\* read through a new storage object, on which no session is open, and its
\* rows are grouped by month.  Without rows the command says so and returns;
\* else it goes on to its loop over the months, holding the rows it read.
shard_read(data_path, dry_run) ==
    LET df == read_parquet_or_empty(file[data_path])
        groups == {year_month(df[i].timestamp) : i \in Idx(df)}
    IN  /\ IF df = <<>>
           THEN /\ last' = Command("shard")
                /\ UNCHANGED script
           ELSE /\ script' = [script EXCEPT !.shard =
                                 [pc |-> "writing", data_path |-> data_path, dry_run |-> dry_run,
                                  df |-> df, months |-> sorted(groups),
                                  count |-> Cardinality(groups)]]
                /\ UNCHANGED last
        /\ UNCHANGED <<file, file_path, conflict_action, batch_df, dirty, exc, atOpen, mutated>>

\* one turn of `for year_month, group_df in sorted(groups)`: the rows of the
\* month, of those read at the beginning, are written, sorted, to the month's
\* file, or under --dry-run only named; after the last month the command
\* returns, ret being the number of months
shard_write ==
    LET sh == script.shard
        ym == Head(sh.months)
        group_df == Pick(sh.df, {i \in Idx(sh.df) : year_month(sh.df[i].timestamp) = ym}, 1)
    IN  /\ sh.pc = "writing"
        /\ file' = IF sh.dry_run THEN file
                   ELSE [p \in Paths |-> IF p \in output_path(sh.data_path, ym)
                                         THEN Parquet(sort_values(group_df))
                                         ELSE file[p]]
        /\ IF Tail(sh.months) = <<>>
           THEN /\ script' = [script EXCEPT !.shard = NoShard]
                /\ last' = [Command("shard") EXCEPT !.ret = sh.count]
           ELSE /\ script' = [script EXCEPT !.shard.months = Tail(@)]
                /\ UNCHANGED last
        /\ UNCHANGED <<file_path, conflict_action, batch_df, dirty, exc, atOpen, mutated>>

\* update_s3_data before its `with ParquetStorage(str(tmp_path))`:
\* `if not tmp_path.exists(): empty_df.to_parquet(tmp_path, ...)`, the empty
\* DataFrame having the columns FIELDS; no session is open on tmp_path yet
create_initial_file(tmp_path) ==
    /\ \A o \in Objs : file_path[o] = tmp_path => batch_df[o].isNone
    /\ file' = IF ~file[tmp_path].exists
               THEN [file EXCEPT ![tmp_path] = Parquet(<<>>)]
               ELSE file
    /\ last' = Command("create")
    /\ UNCHANGED <<file_path, conflict_action, batch_df, dirty, exc, atOpen, mutated>>

\* rewrite_parquet(s3_path, row_group_size): ValueError for a path that does
\* not start with s3://, the error of pq.ParquetFile for a file that cannot
\* be read; else the table is read and written back, the same rows in the
\* same order in row groups of another size
rewrite_parquet(s3_path) ==
    /\ IF ~is_s3(s3_path) \/ read_parquet_fails(file[s3_path])
       THEN /\ last' = [Command("rewrite") EXCEPT !.raised = TRUE]
            /\ UNCHANGED file
       ELSE /\ last' = Command("rewrite")
            /\ file' = [file EXCEPT ![s3_path] = Parquet(file[s3_path].rows)]
    /\ UNCHANGED <<file_path, conflict_action, batch_df, dirty, exc, atOpen, mutated>>


\* ------------------------------------------------- one storage, any caller
\* Object 1 on path 1, used by a caller that opens and closes sessions and
\* calls the operations in any order with any batch, while the commands that
\* write files without a session run beside it.  `last` describes the
\* call that has just returned; the caller drops it before the next call.
Init ==
    /\ \E f \in SessionFiles : file = [p \in Paths |-> IF p = 1 THEN f ELSE Absent]
    /\ \E a \in Policies : Constructed([o \in Objs |-> 1], [o \in Objs |-> a])
    /\ script = NoScript
    /\ NotFetching

BetweenCalls == last = NoLast

Enter == BetweenCalls /\ enter(1) /\ UNCHANGED <<script, fetch, api>>

Exit == BetweenCalls /\ exit(1) /\ UNCHANGED <<script, fetch, api>>

Insert == BetweenCalls /\ (\E data \in Batches : insert_air_data(1, data)) /\ UNCHANGED <<script, fetch, api>>

FetcherRaises == BetweenCalls /\ fetcher_raises(1) /\ UNCHANGED <<script, fetch, api>>

RecordCount == BetweenCalls /\ get_record_count(1) /\ UNCHANGED <<script, fetch, api>>

LatestTimestamp == BetweenCalls /\ get_latest_timestamp(1) /\ UNCHANGED <<script, fetch, api>>

DataSummary == BetweenCalls /\ get_data_summary(1) /\ UNCHANGED <<script, fetch, api>>

\* the commands that write files without a session, at any time between the
\* calls of the caller, the shard command also while the session is open;
\* the caller's calls, an exit among them, can fall between the read of the
\* shard command and each of its writes
ShardRead ==
    /\ BetweenCalls
    /\ script.shard.pc = "idle"
    /\ \E data_path \in Paths, dry_run \in BOOLEAN : shard_read(data_path, dry_run)
    /\ UNCHANGED <<fetch, api>>

ShardWrite == BetweenCalls /\ shard_write /\ UNCHANGED <<fetch, api>>

CreateInitialFile ==
    BetweenCalls /\ create_initial_file(file_path[1]) /\ UNCHANGED <<script, fetch, api>>

RewriteParquet ==
    /\ BetweenCalls
    /\ \E s3_path \in Paths : rewrite_parquet(s3_path)
    /\ UNCHANGED <<script, fetch, api>>

\* the caller goes on: the record of the last call is dropped, nothing else changes
Resume ==
    /\ last # NoLast
    /\ last' = NoLast
    /\ UNCHANGED <<file, file_path, conflict_action, batch_df, dirty, exc, atOpen, mutated, script,
                   fetch, api>>

Next ==
    \/ Enter
    \/ Exit
    \/ Insert
    \/ FetcherRaises
    \/ RecordCount
    \/ LatestTimestamp
    \/ DataSummary
    \/ ShardRead
    \/ ShardWrite
    \/ CreateInitialFile
    \/ RewriteParquet
    \/ Resume

Spec == Init /\ [][Next]_vars

\* The caller alone, no command writing a file beside it: the operations of
\* the storage object and what they do to its buffer.
NextCaller ==
    \/ Enter
    \/ Exit
    \/ Insert
    \/ FetcherRaises
    \/ RecordCount
    \/ LatestTimestamp
    \/ DataSummary
    \/ Resume

SpecCaller == Init /\ [][NextCaller]_vars

\* The same caller on a path whose file exists but cannot be read: the read
\* fails with an OSError that is not FileNotFoundError.
InitUnreadable ==
    /\ \E f \in SessionFiles \ {Absent} :
          file = [p \in Paths |-> IF p = 1 THEN Unreadable(f.rows) ELSE Absent]
    /\ \E a \in Policies : Constructed([o \in Objs |-> 1], [o \in Objs |-> a])
    /\ script = NoScript
    /\ NotFetching

SpecUnreadable == InitUnreadable /\ [][Next]_vars

\* ----------------------------------------------------- scripted sessions
\* A scripted object opens a session, inserts the batches of its script in
\* order and closes; its session ends at the first insert that raises.
enter_scripted(o) ==
    /\ script.todo[o] # <<>>
    /\ enter(o)
    /\ UNCHANGED <<script, fetch, api>>

insert_scripted(o) ==
    /\ ~batch_df[o].isNone
    /\ script.todo[o] # <<>>
    /\ insert_air_data(o, Head(script.todo[o]))
    /\ script' = [script EXCEPT !.todo[o] = Tail(@),
                                !.returned[o] = IF last'.raised THEN @ ELSE @ + 1]
    /\ UNCHANGED <<fetch, api>>

exit_scripted(o) ==
    /\ exc[o] \/ script.todo[o] = <<>>
    /\ exit(o)
    /\ script' = [script EXCEPT !.todo[o] = <<>>]
    /\ UNCHANGED <<fetch, api>>

\* ------------------------------- a fresh store, the same batch inserted twice
InitTwice ==
    /\ file = [p \in Paths |-> Absent]
    /\ \E a \in Policies : Constructed([o \in Objs |-> 1], [o \in Objs |-> a])
    /\ \E B \in Batches :
          script = [A |-> B, B |-> B,
                    todo |-> [o \in Objs |-> IF o = 1 THEN <<B, B>> ELSE <<>>],
                    returned |-> [o \in Objs |-> 0]]
    /\ NotFetching

EnterTwice == enter_scripted(1)

InsertTwice == insert_scripted(1)

ExitTwice == exit_scripted(1)

NextTwice ==
    \/ EnterTwice
    \/ InsertTwice
    \/ ExitTwice

SpecTwice == InitTwice /\ [][NextTwice]_vars

\* ------------------------- two scripted sessions, one per order of A and B
\* Object 1 on path 1 inserts A then B, object 2 on path 2 inserts B then A,
\* from the same initial file and under the same policy; object 2 runs after
\* object 1 has closed.  A and B are batches as the API returns them (UTC
\* timestamps) that do not contradict each other: no timestamp is carried by
\* two of their rows with differing values.  The two orders are symmetric, so
\* A is taken to be the shorter batch; together they have at most MaxBatch + 1
\* rows.
\* rows a and b carry the same timestamp and differ in some value field
Differ(a, b) ==
    /\ a.timestamp = b.timestamp
    /\ \E k \in 1..Len(VAL_FIELDS) : a[VAL_FIELDS[k]] # b[VAL_FIELDS[k]]

\* some timestamp of df is carried by two rows that differ in a value field
HasDifferingPair(df) == \E i \in Idx(df) : \E j \in Idx(df) : Differ(df[i], df[j])

InitOrder ==
    /\ \E f \in SessionFiles : file = [p \in Paths |-> f]
    /\ \E a \in Policies : Constructed([o \in Objs |-> o], [o \in Objs |-> a])
    /\ \E A \in SeqsUpTo(RawPool("Z"), MaxBatch), B \in SeqsUpTo(RawPool("Z"), MaxBatch) :
          /\ Len(A) <= Len(B)
          /\ Len(A) + Len(B) <= MaxBatch + 1
          /\ ~HasDifferingPair(to_naive_df(A) \o to_naive_df(B))
          /\ script = [A |-> A, B |-> B,
                       todo |-> [o \in Objs |-> IF o = 1 THEN <<A, B>> ELSE <<B, A>>],
                       returned |-> [o \in Objs |-> 0]]
    /\ NotFetching

Turn(o) == o = 1 \/ (script.todo[1] = <<>> /\ batch_df[1].isNone)

EnterOrder == \E o \in Objs : Turn(o) /\ enter_scripted(o)

InsertOrder == \E o \in Objs : Turn(o) /\ insert_scripted(o)

ExitOrder == \E o \in Objs : Turn(o) /\ exit_scripted(o)

NextOrder ==
    \/ EnterOrder
    \/ InsertOrder
    \/ ExitOrder

SpecOrder == InitOrder /\ [][NextOrder]_vars

\* ------------------------------------- two sessions on the same path
\* Objects 1 and 2 are constructed on path 1 with the same policy; each opens
\* one session, inserts one batch in it and closes, the steps of the two in
\* any order.  Object 1 inserts A and object 2 inserts B, batches as the API
\* returns them whose timestamps the initial file does not hold (one second
\* more than a file can hold is there to choose from); the two
\* objects being alike, A is taken to be the shorter batch; together they
\* have at most MaxBatch rows.  The script also records the initial file,
\* whether the two sessions were ever open together, and the order in which
\* they closed.
RacePool ==
    UNION {{MkRow([wall |-> t, tz |-> "Z"], v) : v \in ValPool(t)} : t \in 1..(MaxTs + 1)}

InitRace ==
    /\ \E f \in SessionFiles :
          /\ file = [p \in Paths |-> f]
          /\ \E A \in SeqsUpTo(RacePool, MaxBatch), B \in SeqsUpTo(RacePool, MaxBatch) :
                /\ 1 <= Len(A)
                /\ Len(A) <= Len(B)
                /\ Len(A) + Len(B) <= MaxBatch
                /\ Timestamps(to_naive_df(A \o B)) \cap Timestamps(f.rows) = {}
                /\ script = [A |-> A, B |-> B,
                             todo |-> [o \in Objs |-> IF o = 1 THEN <<A>> ELSE <<B>>],
                             returned |-> [o \in Objs |-> 0],
                             initial |-> f, overlap |-> FALSE, closed |-> <<>>]
    /\ \E a \in Policies : Constructed([o \in Objs |-> 1], [o \in Objs |-> a])
    /\ NotFetching

EnterRace ==
    \E o \in Objs :
        /\ script.todo[o] # <<>>
        /\ enter(o)
        /\ script' = [script EXCEPT !.overlap = @ \/ \E q \in Objs \ {o} : ~batch_df[q].isNone]
        /\ UNCHANGED <<fetch, api>>

InsertRace == \E o \in Objs : insert_scripted(o)

ExitRace ==
    \E o \in Objs :
        /\ exc[o] \/ script.todo[o] = <<>>
        /\ exit(o)
        /\ script' = [script EXCEPT !.todo[o] = <<>>, !.closed = Append(@, o)]
        /\ UNCHANGED <<fetch, api>>

NextRace ==
    \/ EnterRace
    \/ InsertRace
    \/ ExitRace

SpecRace == InitRace /\ [][NextRace]_vars

\* -------------------------------------------------- flexible datetimes
\* parse_flexible_datetime (src/src/awair/dt.py).  A string is the sequence
\* of its characters; a character outside ASCII is written as its code
\* point, "U+00B2".
Digits == {"0", "1", "2", "3", "4", "5", "6", "7", "8", "9"}

HexDigits == <<"0", "1", "2", "3", "4", "5", "6", "7", "8", "9", "A", "B", "C", "D", "E", "F">>

RECURSIVE Hex(_)
\* n in hexadecimal
Hex(n) == IF n < 16 THEN HexDigits[n + 1] ELSE Hex(n \div 16) \o HexDigits[(n % 16) + 1]

\* the character chr(n) outside ASCII: "U+" and its code point in four or
\* more hexadecimal digits
chr(n) ==
    "U+" \o (IF n < 16 THEN "000" ELSE IF n < 256 THEN "00" ELSE IF n < 4096 THEN "0" ELSE "")
         \o Hex(n)

\* the code points outside ASCII of the characters for which str.isdigit()
\* is true, as ranges <<first, last>>: the decimal digits of every script,
\* the superscript and subscript digits, the circled, parenthesized, dotted
\* and dingbat digits (Unicode 15.0, 798 characters)
DigitRanges ==
    {<<178, 179>>, <<185, 185>>, <<1632, 1641>>, <<1776, 1785>>, <<1984, 1993>>,
     <<2406, 2415>>, <<2534, 2543>>, <<2662, 2671>>, <<2790, 2799>>, <<2918, 2927>>,
     <<3046, 3055>>, <<3174, 3183>>, <<3302, 3311>>, <<3430, 3439>>, <<3558, 3567>>,
     <<3664, 3673>>, <<3792, 3801>>, <<3872, 3881>>, <<4160, 4169>>, <<4240, 4249>>,
     <<4969, 4977>>, <<6112, 6121>>, <<6160, 6169>>, <<6470, 6479>>, <<6608, 6618>>,
     <<6784, 6793>>, <<6800, 6809>>, <<6992, 7001>>, <<7088, 7097>>, <<7232, 7241>>,
     <<7248, 7257>>, <<8304, 8304>>, <<8308, 8313>>, <<8320, 8329>>, <<9312, 9320>>,
     <<9332, 9340>>, <<9352, 9360>>, <<9450, 9450>>, <<9461, 9469>>, <<9471, 9471>>,
     <<10102, 10110>>, <<10112, 10120>>, <<10122, 10130>>, <<42528, 42537>>,
     <<43216, 43225>>, <<43264, 43273>>, <<43472, 43481>>, <<43504, 43513>>,
     <<43600, 43609>>, <<44016, 44025>>, <<65296, 65305>>, <<66720, 66729>>,
     <<68160, 68163>>, <<68912, 68921>>, <<69216, 69224>>, <<69714, 69722>>,
     <<69734, 69743>>, <<69872, 69881>>, <<69942, 69951>>, <<70096, 70105>>,
     <<70384, 70393>>, <<70736, 70745>>, <<70864, 70873>>, <<71248, 71257>>,
     <<71360, 71369>>, <<71472, 71481>>, <<71904, 71913>>, <<72016, 72025>>,
     <<72784, 72793>>, <<73040, 73049>>, <<73120, 73129>>, <<73552, 73561>>,
     <<92768, 92777>>, <<92864, 92873>>, <<93008, 93017>>, <<120782, 120831>>,
     <<123200, 123209>>, <<123632, 123641>>, <<124144, 124153>>, <<125264, 125273>>,
     <<127232, 127242>>, <<130032, 130041>>}

\* the characters outside ASCII for which str.isdigit() is true
UnicodeDigits == UNION {{chr(n) : n \in range[1]..range[2]} : range \in DigitRanges}

\* the characters str.strip() removes (those for which str.isspace() is true)
Whitespace ==
    {" ", "\t", "\n", "\r", "\f", "U+000B", "U+001C", "U+001D", "U+001E", "U+001F",
     "U+0085", "U+00A0", "U+1680", "U+2000", "U+2001", "U+2002", "U+2003", "U+2004",
     "U+2005", "U+2006", "U+2007", "U+2008", "U+2009", "U+200A", "U+2028", "U+2029",
     "U+202F", "U+205F", "U+3000"}

\* s[a:b] of Python for 0 <= a, b: the characters at positions a+1 .. b
Slice(s, a, b) == SubSeq(s, a + 1, IF b < Len(s) THEN b ELSE Len(s))

\* s[a:]
SliceFrom(s, a) == SubSeq(s, a + 1, Len(s))

RECURSIVE lstrip(_)
lstrip(s) == IF s # <<>> /\ Head(s) \in Whitespace THEN lstrip(Tail(s)) ELSE s

RECURSIVE rstrip(_)
rstrip(s) ==
    IF s # <<>> /\ s[Len(s)] \in Whitespace THEN rstrip(SubSeq(s, 1, Len(s) - 1)) ELSE s

\* str.strip()
strip(s) == rstrip(lstrip(s))

\* `c in s`
contains(s, c) == \E i \in Idx(s) : s[i] = c

\* s.count(c)
count(s, c) == Cardinality({i \in Idx(s) : s[i] = c})

\* s.startswith(prefix)
startswith(s, prefix) == Len(s) >= Len(prefix) /\ SubSeq(s, 1, Len(prefix)) = prefix

\* s.isdigit(): not empty and digits only, of ASCII or not
isdigit(s) == s # <<>> /\ \A i \in Idx(s) : s[i] \in Digits \cup UnicodeDigits

\* what a call returns: a string, None, or BadParameter raised
Returned(value) == [raised |-> FALSE, isNone |-> FALSE, value |-> value]
ReturnedNone == [raised |-> FALSE, isNone |-> TRUE, value |-> <<>>]
BadParameter == [raised |-> TRUE, isNone |-> FALSE, value |-> <<>>]

\* `if len(dt_str) >= 6 and not dt_str.startswith('20'): dt_str = '20' + dt_str`
add_century(dt_str) ==
    IF Len(dt_str) >= 6 /\ ~startswith(dt_str, <<"2", "0">>)
    THEN <<"2", "0">> \o dt_str
    ELSE dt_str

\* the time part of the compact form, without its T prefix, as HH:MM:SS
format_time(time_part) ==
    IF Len(time_part) = 2
    THEN Returned(time_part \o <<":", "0", "0", ":", "0", "0">>)
    ELSE IF Len(time_part) = 4
    THEN Returned(Slice(time_part, 0, 2) \o <<":">> \o Slice(time_part, 2, 4) \o <<":", "0", "0">>)
    ELSE IF Len(time_part) = 5 /\ contains(time_part, ":")
    THEN Returned(time_part \o <<":", "0", "0">>)
    ELSE IF Len(time_part) = 8 /\ count(time_part, ":") = 2
    THEN Returned(time_part)
    ELSE BadParameter

parse_flexible_datetime(dt_str_in) ==
    IF dt_str_in = <<>> THEN ReturnedNone
    ELSE LET stripped == strip(dt_str_in)
         IN  IF contains(stripped, "T") /\ Len(stripped) >= 19 THEN Returned(stripped)
             ELSE LET dt_str == add_century(stripped)
                      date_part == Slice(dt_str, 0, 8)
                      time_part == IF Len(dt_str) > 8 THEN SliceFrom(dt_str, 8) ELSE <<>>
                      formatted_date == Slice(date_part, 0, 4) \o <<"-">> \o Slice(date_part, 4, 6)
                                            \o <<"-">> \o Slice(date_part, 6, 8)
                  IN  IF Len(date_part) # 8 \/ ~isdigit(date_part) THEN BadParameter
                      ELSE IF time_part = <<>>
                      THEN Returned(formatted_date \o <<"T", "0", "0", ":", "0", "0", ":", "0", "0">>)
                      ELSE LET formatted_time ==
                                   format_time(IF startswith(time_part, <<"T">>)
                                               THEN SliceFrom(time_part, 1) ELSE time_part)
                           IN  IF formatted_time.raised THEN BadParameter
                               ELSE Returned(formatted_date \o <<"T">> \o formatted_time.value)

\* The option value is a two-digit year, a month and a day, followed by
\* nothing or by a time part THH, THHMM or THH:MM; it is given once without
\* and once with the century, as it is or with whitespace around it.
Months == {<<"0", "6">>, <<"1", "2">>}
Days == {<<"0", "7">>, <<"3", "0">>}
TimeParts == {<<>>, <<"T", "1", "6">>, <<"T", "1", "6", "2", "0">>, <<"T", "1", "6", ":", "2", "0">>}
Paddings == {[before |-> <<>>, after |-> <<>>],
             [before |-> <<" ">>, after |-> <<>>],
             [before |-> <<"\t">>, after |-> <<"\r", "\n">>]}

Unparsed == [raised |-> FALSE, isNone |-> FALSE, value |-> <<"?">>]

InitParse ==
    /\ file = [p \in Paths |-> Absent]
    /\ Constructed([o \in Objs |-> 1], [o \in Objs |-> "warn"])
    /\ \E y1 \in Digits, y2 \in Digits, mm \in Months, dd \in Days, time \in TimeParts,
          pad \in Paddings :
          script = [yy |-> <<y1, y2>>, mm |-> mm, dd |-> dd, time |-> time, pad |-> pad,
                    short |-> Unparsed, long |-> Unparsed]
    /\ NotFetching

\* the option callback is called with YYMMDD and the time part
ParseShort ==
    /\ script.short = Unparsed
    /\ script' = [script EXCEPT !.short =
                     parse_flexible_datetime(script.pad.before \o script.yy \o script.mm
                                                 \o script.dd \o script.time \o script.pad.after)]
    /\ UNCHANGED <<storage_vars, fetch, api>>

\* the option callback is called with 20YYMMDD and the time part
ParseLong ==
    /\ script.long = Unparsed
    /\ script' = [script EXCEPT !.long =
                     parse_flexible_datetime(script.pad.before \o <<"2", "0">> \o script.yy
                                                 \o script.mm \o script.dd \o script.time
                                                 \o script.pad.after)]
    /\ UNCHANGED <<storage_vars, fetch, api>>

NextParse ==
    \/ ParseShort
    \/ ParseLong

SpecParse == InitParse /\ [][NextParse]_vars

\* ------------------------------------------------------------ the fetcher
\* fetch_raw_data and fetch_date_range (src/src/awair/cli/raw.py).  Times are
\* seconds; the endpoint's reply is [status, data], data being the payload's
\* list of items [timestamp, sensors], sensors a list of [comp, value].

\* the requested range is at most MaxNear seconds longer than a minute or an hour
MaxNear == 3
\* the endpoint answers at most MaxStall requests of one operation with a page
\* whose oldest timestamp is not before the end of the window asked for
MaxStall == 2

FieldSet == {FIELDS[i] : i \in 1..Len(FIELDS)}

\* components the device reports beside the canonical ones
ExtraComps == <<"lux", "spl_a">>

RECURSIVE pivot(_, _)
\* `for s in sensors: row[s['comp']] = s['value']`, starting from row
pivot(row, sensors) ==
    IF sensors = <<>> THEN row
    ELSE pivot((Head(sensors).comp :> Head(sensors).value) @@ row, Tail(sensors))

\* the row dict of one payload item before it is cut down to FIELDS
pivoted(datum) == pivot("timestamp" :> datum.timestamp, datum.sensors)

\* a comprehension that keeps every key the item carried
select_fields_keeps_all(row) == row

\* `{ k: row[k] for k in FIELDS }`, for a row that has every key of FIELDS
select_fields(row) == [k \in FieldSet |-> row[k]]

\* row[k] raises KeyError for some k in FIELDS
raises_KeyError(row) == \E k \in FieldSet : k \notin DOMAIN row

\* the rows of a payload: [raised, rows]; the first item that lacks a field
\* raises, and no row is returned
normalize(data) ==
    IF \E i \in Idx(data) : raises_KeyError(pivoted(data[i]))
    THEN [raised |-> TRUE, rows |-> <<>>]
    ELSE [raised |-> FALSE, rows |-> [i \in Idx(data) |-> select_fields(pivoted(data[i]))]]

\* timestamps.sort(); actual_from = timestamps[0]: the earliest timestamp of the rows
actual_from(rows) ==
    LET i == CHOOSE i \in Idx(rows) : \A j \in Idx(rows) : rows[i].timestamp.wall <= rows[j].timestamp.wall
    IN  rows[i].timestamp

\* fetch_raw_data(from_str, limit, to_str) given the endpoint's reply
fetch_raw_data(reply) ==
    IF reply.status = 429
    THEN [raised |-> FALSE, success |-> FALSE, error |-> "rate_limit", data |-> <<>>, actual_from |-> <<>>]
    ELSE IF reply.status >= 400
    THEN [raised |-> FALSE, success |-> FALSE, error |-> "http_error", data |-> <<>>, actual_from |-> <<>>]
    ELSE LET n == normalize(reply.data)
         IN  IF n.raised
             THEN [raised |-> TRUE, success |-> FALSE, error |-> "KeyError", data |-> <<>>, actual_from |-> <<>>]
             ELSE [raised |-> FALSE, success |-> TRUE, error |-> "", data |-> n.rows,
                   actual_from |-> IF n.rows = <<>> THEN <<>> ELSE <<actual_from(n.rows)>>]

\* datetime.fromisoformat(s.replace('Z', '').replace('+00:00', '')): the naive time
fromisoformat_naive(ts) == ts.wall

\* a loop that goes on after every failed request
stops_on_nothing(error) == FALSE

\* `if result['error'] == 'rate_limit': break`
stops_on(error) == error = "rate_limit"

\* a retreat of one minute after a failed request
retreat_on_error_minute(current_end) == current_end - timedelta(0, 1, 0)

\* `current_end = current_end - timedelta(hours=1)`
retreat_on_error(current_end) == current_end - timedelta(1, 0, 0)

\* the next window end taken from the oldest timestamp whatever it is
next_window_end_unguarded(current_end, oldest_timestamp) ==
    oldest_timestamp - timedelta(0, 0, 1)

\* a next window end that is the oldest timestamp itself, the boundary row
\* being asked for again
next_window_end_no_epsilon(current_end, oldest_timestamp) ==
    IF oldest_timestamp >= current_end
    THEN current_end - timedelta(0, 1, 0)
    ELSE oldest_timestamp

\* the next current_end after a page whose oldest timestamp is oldest_timestamp
next_window_end(current_end, oldest_timestamp) ==
    IF oldest_timestamp >= current_end
    THEN current_end - timedelta(0, 1, 0)
    ELSE oldest_timestamp - timedelta(0, 0, 1)

\* a total that holds the last insert's count only
add_inserted_last_only(total_inserted, inserted) == inserted

\* `total_inserted += inserted`
add_inserted(total_inserted, inserted) == total_inserted + inserted

\* `while current_end > start_date`
while_test(f) == [f EXCEPT !.pc = IF f.current_end > f.start_date THEN "loop" ELSE "done"]

\* after the loop: storage.get_record_count() of the open session is reported
complete(f, df) ==
    IF f.pc = "done" /\ f.storage THEN [f EXCEPT !.record_count = Len(df.rows)] ELSE f

\* the from_dt that raw passes on for a data path: with --recent-only the
\* latest timestamp of the opened store, if it has one
\* (latest_timestamp.isoformat(), parsed again by fetch_date_range)
recent_from_dt(recent_only, df, from_dt) ==
    IF recent_only /\ df.rows # <<>> THEN MaxTimestamp(df.rows) ELSE from_dt

\* fetch_date_range(from_str, to_str, limit, sleep_s, storage) up to the loop
fetch_date_range_begin(storage, from, to, limit) ==
    fetch' = complete(while_test([NoFetch EXCEPT !.storage = storage, !.start_date = from,
                                                 !.end_date = to, !.current_end = to,
                                                 !.limit = limit]),
                      batch_df'[1])

MinOf(S) == CHOOSE t \in S : \A u \in S : t <= u
MaxOf(S) == CHOOSE t \in S : \A u \in S : t >= u

\* the endpoint has answered with a page of rows: the record of its answers
\* (the timestamps seen are recorded for the pages that go to a store)
Answered(rows) ==
    LET T == {rows[i].timestamp.wall : i \in Idx(rows)}
        stalls == IF MinOf(T) >= fetch.current_end THEN api.stalls + 1 ELSE api.stalls
    IN  IF fetch.storage
        THEN [api EXCEPT !.response = "page", !.pages = @ + 1, !.stalls = stalls,
                         !.oldest = <<MinOf(T)>>,
                         !.monotone = @ /\ (api.seen = {} \/ MaxOf(T) < MinOf(api.seen)),
                         !.seen = @ \cup T]
        ELSE [api EXCEPT !.response = "page", !.pages = @ + 1, !.stalls = stalls,
                         !.oldest = <<MinOf(T)>>]

\* one iteration of the while loop of fetch_date_range, the endpoint
\* answering the request with reply
fetch_iteration(reply) ==
    /\ fetch.pc = "loop"
    /\ \E result \in {fetch_raw_data(reply)} :
       LET requested == [fetch EXCEPT !.total_requests = @ + 1]
       IN  IF result.raised
           THEN /\ fetch' = [fetch EXCEPT !.pc = "raised"]
                /\ exc' = [exc EXCEPT ![1] = fetch.storage]
                /\ api' = [api EXCEPT !.response = "raised"]
                /\ UNCHANGED <<file, file_path, conflict_action, batch_df, dirty, atOpen, mutated, last>>
           ELSE IF ~result.success
           THEN /\ IF stops_on(result.error)
                   THEN fetch' = complete([requested EXCEPT !.pc = "done"], batch_df[1])
                   ELSE fetch' = complete(while_test([requested EXCEPT
                                                         !.current_end = retreat_on_error(@)]),
                                          batch_df[1])
                /\ api' = IF result.error = "rate_limit"
                          THEN [api EXCEPT !.response = "rate_limit",
                                           !.limited_at = requested.total_requests]
                          ELSE [api EXCEPT !.response = "http_error", !.errors = @ + 1]
                /\ UNCHANGED storage_vars
           ELSE IF result.data = <<>>
           THEN /\ fetch' = complete([requested EXCEPT !.pc = "done"], batch_df[1])
                /\ api' = [api EXCEPT !.response = "empty"]
                /\ UNCHANGED storage_vars
           ELSE LET oldest_timestamp == fromisoformat_naive(result.actual_from[1])
                    next == [requested EXCEPT
                                !.current_end = next_window_end(@, oldest_timestamp)]
                IN  /\ api' = Answered(result.data)
                    /\ IF fetch.storage
                       THEN /\ insert_air_data(1, result.data)
                            /\ fetch' = IF last'.raised
                                        THEN [requested EXCEPT !.pc = "raised"]
                                        ELSE complete(while_test([next EXCEPT
                                                 !.total_inserted = add_inserted(@, last'.ret)]),
                                                 batch_df'[1])
                       ELSE /\ fetch' = while_test([next EXCEPT !.printed = @ + Len(result.data)])
                            /\ UNCHANGED storage_vars
    /\ UNCHANGED script

\* the payload item the endpoint sends for the reading r
Datum(r) ==
    [timestamp |-> r.timestamp,
     sensors |-> [i \in Idx(VAL_FIELDS) |-> [comp |-> VAL_FIELDS[i], value |-> r[VAL_FIELDS[i]]]]]

\* a reading at second t as the endpoint reports it, in UTC
Reading(t, v) == MkRow([wall |-> t, tz |-> "Z"], v)

Ok(data) == [status |-> 200, data |-> data]
Failed(status) == [status |-> status, data |-> <<>>]

\* ------------------------------------- the raw command, any endpoint answers
\* The endpoint answers each request with 429, with another HTTP error, or
\* with a page of at most MaxBatch items, newest first, whose timestamps are
\* the two ends of the requested range and the seconds next to them, whatever
\* the window asked for; the reading at the end of the range comes with either
\* of its values, and one page has an item without its last sensor.  At most
\* MaxStall of the pages of one operation make no progress.  The range is
\* empty, or one second, or MaxNear seconds more than nothing, a minute or an
\* hour.
Spans == {0, 1} \cup {timedelta(0, 0, MaxNear), timedelta(0, 1, MaxNear), timedelta(1, 0, MaxNear)}

Landmarks(from, to) == {from, from + 1, to - 1, to}

Pages(from, to) ==
    LET pool == {Reading(t, BaseVals) : t \in Landmarks(from, to)}
                    \cup {Reading(to, v) : v \in ValPool(to)}
    IN  {p \in SeqsUpTo(pool, MaxBatch) :
            \A i \in Idx(p) : \A j \in Idx(p) : i < j => p[i].timestamp.wall >= p[j].timestamp.wall}

Replies(from, to) ==
    {Failed(429), Failed(500)}
        \cup {Ok([i \in Idx(p) |-> Datum(p[i])]) : p \in Pages(from, to)}
        \cup {Ok(<<[Datum(Reading(to, BaseVals)) EXCEPT !.sensors = SubSeq(@, 1, Len(@) - 1)]>>)}

\* the data file is absent or holds the reading of second 1
StoredBefore == {Absent, Parquet(<<MkRow(1, BaseVals)>>)}

InitFetch ==
    /\ \E f \in StoredBefore : file = [p \in Paths |-> f]
    /\ \E a \in Policies : Constructed([o \in Objs |-> 1], [o \in Objs |-> a])
    /\ script = NoScript
    /\ NotFetching

\* raw with data_path '-': fetch_date_range(from_dt, to_dt, limit, sleep_s, None)
RawToStdout ==
    /\ fetch.pc = "idle"
    /\ UNCHANGED storage_vars
    /\ \E span \in Spans : fetch_date_range_begin(FALSE, 0, span, MaxBatch)
    /\ UNCHANGED <<script, api>>

\* raw with a data path: the session is opened and fetch_date_range is called in it
RawToStorage ==
    /\ fetch.pc = "idle"
    /\ enter(1)
    /\ \E span \in Spans, recent_only \in BOOLEAN :
          fetch_date_range_begin(TRUE, recent_from_dt(recent_only, batch_df'[1], 0), span, MaxBatch)
    /\ UNCHANGED <<script, api>>

\* the reply is a page whose oldest timestamp is not before current_end
Stalls(reply) ==
    /\ reply.status = 200
    /\ reply.data # <<>>
    /\ \A i \in Idx(reply.data) : reply.data[i].timestamp.wall >= fetch.current_end

FetchAny ==
    \E reply \in Replies(fetch.start_date, fetch.end_date) :
        /\ Stalls(reply) => api.stalls < MaxStall
        /\ fetch_iteration(reply)

\* fetch_date_range has returned or raised: the with block is left
RawExit ==
    /\ fetch.pc \in {"done", "raised"}
    /\ fetch.storage
    /\ exit(1)
    /\ UNCHANGED <<script, fetch, api>>

NextFetch ==
    \/ RawToStdout
    \/ RawToStorage
    \/ FetchAny
    \/ RawExit

SpecFetch == InitFetch /\ [][NextFetch]_vars

\* --------------------------- the raw command, an endpoint that has readings
\* The endpoint holds readings at whole seconds and answers a request
\* [from, to] with the newest min(limit, n) of its n readings in that window.
RECURSIVE newest(_, _)
newest(W, k) ==
    IF k = 0 \/ W = {} THEN <<>>
    ELSE <<Reading(MaxOf(W), BaseVals)>> \o newest(W \ {MaxOf(W)}, k - 1)

Served(readings, from, to, limit) ==
    LET page == newest({t \in readings : from <= t /\ t <= to}, limit)
    IN  Ok([i \in Idx(page) |-> Datum(page[i])])

InitBackfill ==
    /\ \E f \in StoredBefore : file = [p \in Paths |-> f]
    /\ \E a \in Policies : Constructed([o \in Objs |-> 1], [o \in Objs |-> a])
    /\ script = NoScript
    /\ fetch = NoFetch
    /\ \E R \in SUBSET (-1..(MaxNear + 1)) : api = [NoApi EXCEPT !.readings = R]

BackfillStart ==
    /\ fetch.pc = "idle"
    /\ enter(1)
    /\ \E to \in 1..MaxNear, limit \in 1..MaxBatch, recent_only \in BOOLEAN :
          fetch_date_range_begin(TRUE, recent_from_dt(recent_only, batch_df'[1], 0), to, limit)
    /\ UNCHANGED <<script, api>>

FetchServed ==
    fetch_iteration(Served(api.readings, fetch.start_date, fetch.current_end, fetch.limit))

NextBackfill ==
    \/ BackfillStart
    \/ FetchServed
    \/ RawExit

SpecBackfill == InitBackfill /\ [][NextBackfill]_vars

\* ------------------------------------------------ one fetch_raw_data call
\* The endpoint replies 200 with up to MaxBatch items.  An item has the
\* canonical components in the device's order, with at most one of them
\* missing, and any of the extra components after them.
AllComps == VAL_FIELDS \o ExtraComps

CompValue(c) == IF c \in DOMAIN BaseVals THEN BaseVals[c] ELSE 0

SensorLists ==
    {Pick(AllComps, I, 1) :
        I \in {J \in SUBSET Idx(AllComps) : Cardinality(Idx(VAL_FIELDS) \ J) <= 1}}

\* the item at position i of a payload, with the components comps
Item(i, comps) ==
    [timestamp |-> [wall |-> i, tz |-> "Z"],
     sensors |-> [j \in Idx(comps) |-> [comp |-> comps[j], value |-> CompValue(comps[j])]]]

\* the payloads of n items
Payloads(n) == {[i \in 1..n |-> Item(i, c[i])] : c \in [1..n -> SensorLists]}

InitRaw ==
    /\ file = [p \in Paths |-> Absent]
    /\ Constructed([o \in Objs |-> 1], [o \in Objs |-> "warn"])
    /\ script = NoScript
    /\ fetch = NoFetch
    /\ \E n \in 0..MaxBatch : \E data \in Payloads(n) : api = [NoApi EXCEPT !.reply = Ok(data)]

FetchRaw ==
    /\ api.response = ""
    /\ api' = [api EXCEPT !.response = "fetched", !.result = fetch_raw_data(api.reply)]
    /\ UNCHANGED <<storage_vars, script, fetch>>

NextRaw == FetchRaw

SpecRaw == InitRaw /\ [][NextRaw]_vars

\* ------------------------------------------------------- the hist command
\* hist (src/src/awair/cli/data_cmd.py).  A stored timestamp is a number of
\* seconds; an option value, as parse_flexible_datetime returns it, is a date
\* and a time of day, [day, sec].

\* the stored records span the days 0 .. MaxDay
MaxDay == 1

\* pd.to_datetime(from_dt) of an ISO string
to_datetime(dt) == dt.day * SecondsPerDay + dt.sec

\* df['timestamp'].dt.date
date(timestamp) == timestamp \div SecondsPerDay

\* storage.read_data(): the buffer of the open session, else the file
read_data(o) ==
    IF ~batch_df[o].isNone THEN batch_df[o].rows ELSE read_parquet_or_empty(file[file_path[o]])

\* `df[df['timestamp'] >= from_timestamp]`
filter_from(df, from_timestamp) ==
    Pick(df, {i \in Idx(df) : df[i].timestamp >= from_timestamp}, 1)

\* a filter that leaves out the records at to_timestamp itself
filter_to_exclusive(df, to_timestamp) ==
    Pick(df, {i \in Idx(df) : df[i].timestamp < to_timestamp}, 1)

\* `df[df['timestamp'] <= to_timestamp]`
filter_to(df, to_timestamp) ==
    Pick(df, {i \in Idx(df) : df[i].timestamp <= to_timestamp}, 1)

RECURSIVE Ascending(_)
\* the elements of a set of numbers in ascending order
Ascending(S) == IF S = {} THEN <<>> ELSE <<MinOf(S)>> \o Ascending(S \ {MinOf(S)})

\* df.groupby('date').size().reset_index(name='count').sort_values('date')
daily_counts(df) ==
    LET dates == Ascending({date(df[i].timestamp) : i \in Idx(df)})
    IN  [k \in Idx(dates) |->
            [date |-> dates[k],
             count |-> Cardinality({i \in Idx(df) : date(df[i].timestamp) = dates[k]})]]

\* hist(data_path, from_dt, to_dt): the lines echoed and the message on stderr
hist(o, from_dt, to_dt) ==
    LET df == read_data(o)
        from_df == IF from_dt # <<>> THEN filter_from(df, to_datetime(from_dt[1])) ELSE df
        to_df == IF to_dt # <<>> THEN filter_to(from_df, to_datetime(to_dt[1])) ELSE from_df
    IN  IF df = <<>> THEN [out |-> <<>>, err |-> "No data in file"]
        ELSE IF (from_dt # <<>> \/ to_dt # <<>>) /\ to_df = <<>>
        THEN [out |-> <<>>, err |-> "No data in specified date range"]
        ELSE [out |-> daily_counts(to_df), err |-> ""]

\* The file holds records at some of the first and last seconds of the days
\* 0 .. MaxDay; --from-dt and --to-dt are absent or name one of these seconds.
HistTimes == {[day |-> d, sec |-> c] : d \in 0..MaxDay, c \in {0, SecondsPerDay - 1}}

HistOptions == {<<>>} \cup {<<t>> : t \in HistTimes}

InitHist ==
    /\ \E S \in SUBSET HistTimes :
          LET stored == Ascending({to_datetime(t) : t \in S})
          IN  file = [p \in Paths |->
                        IF S = {} THEN Absent
                        ELSE Parquet([i \in Idx(stored) |-> MkRow(stored[i], BaseVals)])]
    /\ Constructed([o \in Objs |-> 1], [o \in Objs |-> "warn"])
    /\ \E from_dt \in HistOptions, to_dt \in HistOptions :
          script = [pc |-> "start", from_dt |-> from_dt, to_dt |-> to_dt,
                    out |-> <<>>, err |-> ""]
    /\ NotFetching

Hist ==
    /\ script.pc = "start"
    /\ \E result \in {hist(1, script.from_dt, script.to_dt)} :
          script' = [script EXCEPT !.pc = "done", !.out = result.out, !.err = result.err]
    /\ UNCHANGED <<storage_vars, fetch, api>>

NextHist == Hist

SpecHist == InitHist /\ [][NextHist]_vars

\* ------------------------------------------------------ the devices cache
\* get_devices (src/src/awair/cli/config.py).  Times are whole seconds.

\* get_devices is called at most MaxCalls times
MaxCalls == 2

\* `cache_ttl = 3600  # 1 hour`
cache_ttl == 3600

\* json.dump of time.time(), a float, at a whole second
float_repr(seconds) == ToString(seconds) \o ".0"

\* json.dump(devices, indent=2) inside the object: one device per line
RECURSIVE dump_items(_)
dump_items(devices) ==
    IF Len(devices) = 1 THEN "\n    " \o ToString(devices[1])
    ELSE "\n    " \o ToString(devices[1]) \o "," \o dump_items(Tail(devices))
dump_list(devices) == IF devices = <<>> THEN "[]" ELSE "[" \o dump_items(devices) \o "\n  ]"

\* the text json.dump(cache_data, f, indent=2) writes for the keys present
dumps(cached_at, devices) ==
    LET a == IF cached_at = <<>> THEN "" ELSE "\n  \"cached_at\": " \o float_repr(cached_at[1])
        d == IF devices = <<>> THEN "" ELSE "\n  \"devices\": " \o dump_list(devices[1])
    IN  IF cached_at = <<>> /\ devices = <<>> THEN "{}"
        ELSE "{" \o a \o (IF cached_at # <<>> /\ devices # <<>> THEN "," ELSE "") \o d \o "\n}"

\* A cache file: whether it exists, is text that decodes, parses as JSON, and
\* parses to an object; the object's keys cached_at and devices, each
\* present (<<v>>) or missing (<<>>); whether cached_at is a number; the
\* length of its text.
NoCache ==
    [exists |-> FALSE, decodes |-> TRUE, parses |-> FALSE, is_object |-> FALSE,
     cached_at |-> <<>>, cached_at_is_number |-> TRUE, devices |-> <<>>, size |-> 0]

\* a file of text that is not JSON: empty (size 0, as open(cache_file, 'w')
\* leaves it) or a JSON text followed by the tail of a longer one
Unparseable(size) == [NoCache EXCEPT !.exists = TRUE, !.size = size]
CorruptCache == Unparseable(0)

\* the file json.dump writes into an empty file
CacheData(cached_at, devices) ==
    [exists |-> TRUE, decodes |-> TRUE, parses |-> TRUE, is_object |-> TRUE,
     cached_at |-> cached_at, cached_at_is_number |-> TRUE, devices |-> devices,
     size |-> Len(dumps(cached_at, devices))]

\* a file of bytes that are not UTF-8
UndecodableCache == [Unparseable(1) EXCEPT !.decodes = FALSE]

\* a file of JSON that is not an object: `[]`
ListCache == [Unparseable(Len("[]")) EXCEPT !.parses = TRUE]

\* a file whose cached_at is a string, {"devices": ..., "cached_at": "now"};
\* the number in the record's cached_at stands for the string and is not read
TextStampCache(devices) ==
    [CacheData(<<0>>, devices) EXCEPT !.cached_at_is_number = FALSE,
                                      !.size = Len(dumps(<<>>, devices)) + Len(",\n  \"cached_at\": \"now\"")]

\* the file after the text of new was written from its start into
\* cache_file: the new text alone, or, the old text being longer,
\* the new text followed by the old text's tail, which is not JSON
Overwritten(cache_file, new) ==
    IF cache_file.size <= new.size THEN new ELSE Unparseable(cache_file.size)

\* dict.get(key, default) of a key that is present (<<v>>) or missing (<<>>)
get_or(entry, default) == IF entry = <<>> THEN default ELSE entry[1]

\* `if time.time() - cached_at < cache_ttl`
cache_is_valid(now, cached_at) == now - cached_at < cache_ttl

CacheMiss == [error |-> "", devices |-> <<>>]
CacheHit(devices) == [error |-> "", devices |-> <<devices>>]
CacheRaised(error) == [error |-> error, devices |-> <<>>]

\* the check of the cache at time now: the devices to return, if any, or
\* the exception that is not caught (json.JSONDecodeError is)
cached_devices(force_refresh, cache_file, now) ==
    IF force_refresh \/ ~cache_file.exists THEN CacheMiss
    ELSE IF ~cache_file.decodes THEN CacheRaised("UnicodeDecodeError")
    ELSE IF ~cache_file.parses THEN CacheMiss
    ELSE IF ~cache_file.is_object THEN CacheRaised("AttributeError")
    ELSE IF cache_file.cached_at # <<>> /\ ~cache_file.cached_at_is_number
    THEN CacheRaised("TypeError")
    ELSE IF cache_is_valid(now, get_or(cache_file.cached_at, 0))
    THEN CacheHit(get_or(cache_file.devices, <<>>))
    ELSE CacheMiss

\* The device lists the API and the cache can hold; the API answers with one
\* of them or with an HTTP error, at once or a second after it was asked.
\* The clock starts well after 1970 and moves on before a call by nothing or
\* by about the TTL.  The cache file found at the start is one that
\* get_devices wrote about the TTL ago, now, or a second in the future, or
\* began to write, or one that lacks a key, or one that something else
\* wrote: bytes that do not decode, JSON that is not an object, an object
\* whose cached_at is not a number.
DeviceLists == {<<1>>, <<1, 2>>}
ApiReplies == {[raised |-> TRUE, devices |-> <<>>]}
                  \cup {[raised |-> FALSE, devices |-> d] : d \in DeviceLists}
StartTime == cache_ttl + cache_ttl
Ages == {0 - 1, 0, cache_ttl - 1, cache_ttl, cache_ttl + 1}
Waits == {0, cache_ttl - 1, cache_ttl}
Latencies == {0, 1}

InitialCaches ==
    {NoCache, CorruptCache}
        \cup {CacheData(<<StartTime - age>>, <<d>>) : age \in Ages, d \in DeviceLists}
        \cup {CacheData(<<>>, <<d>>) : d \in DeviceLists}
        \cup {CacheData(<<StartTime>>, <<>>)}
        \cup {UndecodableCache, ListCache}
        \cup {TextStampCache(<<d>>) : d \in DeviceLists}

\* the processes that call get_devices; a call of one can begin while a call
\* of the other waits for the API or writes the cache.  The two being alike,
\* caller 2 is the one whose calls begin during a call of caller 1.
Callers == {1, 2}

\* A call of get_devices: where it stands ("idle" before and after it,
\* "waiting" for the answer of get(DEVICES), "writing" between the open of
\* the cache file for writing and its close, "returned" in the state it
\* returns or raises in), its argument, the cache file and the time of its
\* cache check, the time it read for cached_at, the API's answer, what it
\* returned or raised, the requests it made, and the cache file as its last
\* step found it.
NoCall == [pc |-> "idle", caller |-> 0, force_refresh |-> FALSE, before |-> NoCache, at |-> 0,
           written_at |-> 0, reply |-> <<>>, ret |-> <<>>, raised |-> FALSE, error |-> "",
           requests |-> 0, left |-> NoCache]

InitDevices ==
    /\ file = [p \in Paths |-> Absent]
    /\ Constructed([o \in Objs |-> 1], [o \in Objs |-> "warn"])
    /\ \E c \in InitialCaches :
          script = [cache_file |-> c, now |-> StartTime, calls |-> 0,
                    proc |-> [c2 \in Callers |-> NoCall], call |-> NoCall]
    /\ NotFetching

\* the call has returned ret
Return(call, ret) == [call EXCEPT !.pc = "returned", !.ret = ret]

\* the call has raised error
Raise(call, error) == [call EXCEPT !.pc = "returned", !.raised = TRUE, !.error = error]

\* time passes and a caller calls get_devices(force_refresh): the check of
\* the cache, after which the call returns the cached devices, raises, or
\* sends its request to the API
GetDevices ==
    /\ script.calls < MaxCalls
    /\ \E c \in Callers, force_refresh \in BOOLEAN, wait \in Waits :
          /\ script.proc[c].pc = "idle"
          /\ c = 1 \/ script.proc[1].pc # "idle"
          /\ LET at == script.now + wait
                 cached == cached_devices(force_refresh, script.cache_file, at)
                 call == [NoCall EXCEPT !.caller = c, !.force_refresh = force_refresh,
                                        !.before = script.cache_file, !.at = at,
                                        !.written_at = at, !.left = script.cache_file]
             IN  script' = [script EXCEPT
                     !.now = at,
                     !.calls = @ + 1,
                     !.proc[c] = IF cached.error = "" /\ cached.devices = <<>>
                                 THEN [call EXCEPT !.pc = "waiting", !.requests = 1]
                                 ELSE NoCall,
                     !.call = IF cached.error # "" THEN Raise(call, cached.error)
                              ELSE IF cached.devices # <<>> THEN Return(call, cached.devices)
                              ELSE NoCall]
    /\ UNCHANGED <<storage_vars, fetch, api>>

\* get(DEVICES) of a waiting call comes back, some time after the request:
\* with an HTTP error, which the call raises, or with the devices, and the
\* call reads the clock for cached_at and opens the cache file for writing,
\* which empties it
DevicesAnswered ==
    /\ \E c \in Callers, reply \in ApiReplies, latency \in Latencies :
          /\ script.proc[c].pc = "waiting"
          /\ LET call == [script.proc[c] EXCEPT !.reply = <<reply>>, !.left = script.cache_file,
                                                !.written_at = script.now + latency]
             IN  script' = [script EXCEPT
                     !.now = @ + latency,
                     !.cache_file = IF reply.raised THEN @ ELSE CorruptCache,
                     !.proc[c] = IF reply.raised THEN NoCall ELSE [call EXCEPT !.pc = "writing"],
                     !.call = IF reply.raised THEN Raise(call, "HTTPError") ELSE NoCall]
    /\ UNCHANGED <<storage_vars, fetch, api>>

\* json.dump and the close of the cache file: the text of cached_at and the
\* devices, a few lines written at the close in one piece, goes into the
\* file from its start, over whatever another writer has put there since
\* this one's open, and the call returns the devices
WriteCache ==
    /\ \E c \in Callers :
          /\ script.proc[c].pc = "writing"
          /\ script' = [script EXCEPT
                 !.cache_file = Overwritten(@, CacheData(<<script.proc[c].written_at>>,
                                                         <<script.proc[c].reply[1].devices>>)),
                 !.proc[c] = NoCall,
                 !.call = Return([script.proc[c] EXCEPT !.left = script.cache_file],
                                 <<script.proc[c].reply[1].devices>>)]
    /\ UNCHANGED <<storage_vars, fetch, api>>

NextDevices ==
    \/ GetDevices
    \/ DevicesAnswered
    \/ WriteCache

SpecDevices == InitDevices /\ [][NextDevices]_vars

\* ------------------------------------------------------ the SQLite store
\* Database.insert_air_data (src/src/awair/database.py).  The table air_data
\* is the set of its rows, [timestamp, temp, co2, pm10, pm25, humid, voc],
\* no two with the same timestamp; the DateTime column keeps the wall-clock
\* time of a datetime and not its offset.  The session flushes the rows
\* added to it before each query, so a query sees them.

\* datetime.fromisoformat(record['timestamp'].replace('Z', '+00:00')) as the
\* DateTime column holds it and as a query compares it
column_value(ts) == ts.wall

\* session.query(AirData).filter_by(timestamp=timestamp).first(): the rows found
query_first(rows, timestamp) == {r \in rows : r.timestamp = timestamp}

\* the fields of `conflicts`: those whose stored value differs from the record's
differing_fields(existing, record) ==
    {k \in Idx(VAL_FIELDS) : existing[VAL_FIELDS[k]] # record[VAL_FIELDS[k]]}

\* AirData(timestamp=timestamp) with the record's sensor fields set
AirData(timestamp, record) == [record EXCEPT !.timestamp = timestamp]

\* a rollback after which the rows flushed before the exception remain
rollback_keeps_added(table, added) == table \cup added

\* session.rollback(): the table as it was when the session began
rollback(table, added) == table

\* session.commit(): the rows added in the session are in the table
commit(table, added) == table \cup added

RECURSIVE insert_loop(_, _, _, _)
\* the for loop over data from record i on, `added` being the rows added to
\* the session so far: whether ValueError is raised, and the rows added
insert_loop(table, added, data, i) ==
    IF i > Len(data) THEN [raised |-> FALSE, added |-> added]
    ELSE LET record == data[i]
             timestamp == column_value(record.timestamp)
             existing == query_first(table \cup added, timestamp)
         IN  IF existing # {}
             THEN IF \E e \in existing : differing_fields(e, record) # {}
                  THEN [raised |-> TRUE, added |-> added]
                  ELSE insert_loop(table, added, data, i + 1)
             ELSE insert_loop(table, added \cup {AirData(timestamp, record)}, data, i + 1)

\* Database.insert_air_data(data): ValueError raised or the count returned,
\* and the table afterwards
Database_insert_air_data(table, data) ==
    LET loop == insert_loop(table, {}, data, 1)
    IN  IF loop.raised
        THEN [raised |-> TRUE, ret |-> 0, table |-> rollback(table, loop.added)]
        ELSE [raised |-> FALSE, ret |-> Cardinality(loop.added),
              table |-> commit(table, loop.added)]

\* The table holds at most one row for each of the timestamps 1 .. MaxTs; a
\* batch is any that a caller can pass.
InitDatabase ==
    /\ file = [p \in Paths |-> Absent]
    /\ Constructed([o \in Objs |-> 1], [o \in Objs |-> "warn"])
    /\ \E f \in SessionFiles :
          script = [pc |-> "start", table |-> RowSet(f.rows), before |-> RowSet(f.rows),
                    data |-> <<>>, raised |-> FALSE, ret |-> 0]
    /\ NotFetching

DatabaseInsert ==
    /\ script.pc = "start"
    /\ \E data \in Batches :
          \E result \in {Database_insert_air_data(script.table, data)} :
             script' = [script EXCEPT !.pc = "done", !.data = data, !.table = result.table,
                                     !.raised = result.raised, !.ret = result.ret]
    /\ UNCHANGED <<storage_vars, fetch, api>>

NextDatabase == DatabaseInsert

SpecDatabase == InitDatabase /\ [][NextDatabase]_vars

\* ----------------------------------------------------------------- claims
\* the object of the last operation, its path, its file
LastPath == file_path[last.obj]
LastFile == file[LastPath]
LastPolicy == conflict_action[last.obj]
InsertedIntoOpen == last.op = "insert" /\ ~last.before.isNone

RowsAt(df, t) == {i \in Idx(df) : df[i].timestamp = t}

\* C1: when a session is left because of an exception after earlier inserts
\* grew the buffer, the file after the exit equals the file before the session
\* was opened.
C1_ExceptionalExitLeavesFile ==
    (last.op = "exit" /\ last.exc /\ last.dirtyBefore) => LastFile = atOpen[last.obj]

\* C2: between the open and the close of a session the file at its path is
\* what it was at the open, and an operation of a storage object changes a
\* file only in the step that closes its session, and then the file at its
\* path alone, so the file is written at most once per session.
C2_FileUnchangedUntilClose ==
    /\ [](\A o \in Objs : ~batch_df[o].isNone => file[file_path[o]] = atOpen[o])
    /\ [][(file' # file /\ last'.obj \in Objs) =>
            /\ last'.op = "exit"
            /\ ~batch_df[last'.obj].isNone
            /\ batch_df'[last'.obj].isNone
            /\ \A p \in Paths \ {file_path[last'.obj]} : file'[p] = file[p]]_vars

\* a session that has grown its buffer and has just been read: the count comes
\* from the buffer, the file has fewer rows
C2_Witness ==
    /\ last.op = "count"
    /\ ~batch_df[1].isNone
    /\ dirty[1]
    /\ last.ret > Len(file[file_path[1]].rows)

\* C3: on normal exit, if any insert of the session changed the contents of the
\* buffer, the file after the close holds exactly the rows of the buffer.
C3_MutatedBufferIsWritten ==
    (last.op = "exit" /\ ~last.exc /\ mutated[last.obj]) =>
        /\ LastFile.exists
        /\ RowSet(LastFile.rows) = RowSet(last.before.rows)
        /\ Len(LastFile.rows) = Len(last.before.rows)

\* C4: after a close the rows of the file are in strictly increasing timestamp
\* order.
C4_FileStrictlyIncreasing ==
    last.op = "exit" => StrictlyIncreasing(LastFile.rows)

\* a close that wrote a buffer of several rows that was not in timestamp order
C4_Witness ==
    /\ last.op = "exit"
    /\ last.dirtyBefore
    /\ Len(last.before.rows) >= 2
    /\ ~StrictlyIncreasing(last.before.rows)
    /\ Len(LastFile.rows) = Len(last.before.rows)

\* a row of the buffer before the insert that a row of the batch contradicts
ContradictedRows ==
    {i \in Idx(last.before.rows) :
        \E j \in Idx(last.new_df) : Differ(last.before.rows[i], last.new_df[j])}

\* C5: under 'warn', an insert of a row whose timestamp is in the buffer with a
\* differing value does not raise and leaves the buffer's only row for that
\* timestamp with the existing values.
C5_WarnKeepsFirstSeen ==
    (InsertedIntoOpen /\ LastPolicy = "warn") =>
        /\ ~last.raised
        /\ \A i \in ContradictedRows :
              \A j \in RowsAt(batch_df[last.obj].rows, last.before.rows[i].timestamp) :
                  batch_df[last.obj].rows[j] = last.before.rows[i]
        /\ \A i \in ContradictedRows :
              Cardinality(RowsAt(batch_df[last.obj].rows, last.before.rows[i].timestamp)) = 1

C5_Witness ==
    /\ InsertedIntoOpen
    /\ LastPolicy = "warn"
    /\ ContradictedRows # {}

\* the insert was of the single row new_df[1], whose timestamp the buffer
\* already held with other values
SingleContradictingRow ==
    /\ InsertedIntoOpen
    /\ Len(last.new_df) = 1
    /\ ContradictedRows # {}

\* C6: under 'replace', an insert of a row whose timestamp is in the buffer
\* with a differing value returns 0, the buffer's row for that timestamp then
\* carries the inserted values, and the rows of all other timestamps are
\* unchanged.
C6_ReplaceKeepsLastSeen ==
    (SingleContradictingRow /\ LastPolicy = "replace") =>
        /\ ~last.raised
        /\ last.ret = 0
        /\ Len(batch_df[last.obj].rows) = Len(last.before.rows)
        /\ RowSet(batch_df[last.obj].rows) =
              {r \in RowSet(last.before.rows) : r.timestamp # last.new_df[1].timestamp}
                  \cup {last.new_df[1]}

\* such an insert, into a buffer that also holds another timestamp
C6_Witness ==
    /\ SingleContradictingRow
    /\ LastPolicy = "replace"
    /\ Len(last.before.rows) >= 2

\* C7: under 'error', an insert raises exactly when the buffer followed by the
\* batch holds a timestamp carried by two rows that differ in a value field.
C7_ErrorRaisesIffConflict ==
    (last.op = "insert" /\ LastPolicy = "error") =>
        (last.raised <=>
            (~last.before.isNone /\ HasDifferingPair(last.before.rows \o last.new_df)))

\* a raise caused by two rows of the batch alone: the buffer did not hold
\* their timestamp
C7_Witness ==
    /\ last.op = "insert"
    /\ LastPolicy = "error"
    /\ last.raised
    /\ ContradictedRows = {}
    /\ last.before.rows # <<>>

\* the insert was of the single row new_df[1], which the buffer already held
SingleIdenticalRow ==
    /\ InsertedIntoOpen
    /\ Len(last.new_df) = 1
    /\ last.new_df[1] \in RowSet(last.before.rows)

\* C8: under every policy, an insert of a row identical to a row of the buffer
\* does not raise, the buffer keeps exactly one row for the timestamp, and the
\* row count is unchanged.
C8_IdenticalRowIsNoConflict ==
    SingleIdenticalRow =>
        /\ ~last.raised
        /\ last.ret = 0
        /\ Cardinality(RowsAt(batch_df[last.obj].rows, last.new_df[1].timestamp)) = 1
        /\ Len(batch_df[last.obj].rows) = Len(last.before.rows)

C8_Witness ==
    /\ SingleIdenticalRow
    /\ LastPolicy = "error"
    /\ Len(last.before.rows) >= 2

\* object 1 has inserted the same batch twice into a store that had no file
InsertedTwiceIntoFresh ==
    /\ script.A = script.B
    /\ ~atOpen[1].exists
    /\ last.op = "insert"
    /\ last.obj = 1
    /\ script.returned[1] = 2

\* C9: on a fresh store, inserting a batch a second time leaves the buffer as
\* the first insert left it (same rows, same count), returns 0 and does not
\* newly mark the session dirty.
C9_InsertIdempotent ==
    InsertedTwiceIntoFresh =>
        /\ RowSet(batch_df[1].rows) = RowSet(last.before.rows)
        /\ Len(batch_df[1].rows) = Len(last.before.rows)
        /\ last.ret = 0
        /\ dirty[1] = last.dirtyBefore

\* the batch inserted twice had two rows, of two timestamps
C9_Witness ==
    /\ InsertedTwiceIntoFresh
    /\ Len(script.A) = 2
    /\ Len(batch_df[1].rows) = 2

\* both scripted sessions have run and closed, after both inserts or after
\* the insert that raised
BothOrdersDone ==
    \A o \in Objs :
        /\ script.todo[o] = <<>>
        /\ batch_df[o].isNone

\* C10: when no timestamp is carried by two rows of A and B with differing
\* values, the session that inserted A then B and the session that inserted B
\* then A, from the same initial file, leave the same file.
C10_InsertCommutes ==
    (BothOrdersDone /\ ~HasDifferingPair(to_naive_df(script.A) \o to_naive_df(script.B))) =>
        file[1] = file[2]

\* C11: every insert that returns gives back max(0, buffer rows after minus
\* buffer rows before), never a negative number, and the dirty flag after the
\* insert is set exactly when it was set before or the buffer grew; an insert
\* that raises leaves the flag as it was.
C11_InsertReturnsGrowth ==
    last.op = "insert" =>
        LET growth == Len(batch_df[last.obj].rows) - Len(last.before.rows)
        IN  IF last.raised
            THEN dirty[last.obj] = last.dirtyBefore
            ELSE /\ last.ret = (IF growth > 0 THEN growth ELSE 0)
                 /\ last.ret >= 0
                 /\ dirty[last.obj] = (last.dirtyBefore \/ growth > 0)

\* an insert into a clean open session replaced nothing and added nothing, so
\* it returned 0 and the session is still clean
C11_Witness ==
    /\ InsertedIntoOpen
    /\ last.new_df # <<>>
    /\ ~last.raised
    /\ ~last.dirtyBefore
    /\ last.ret = 0
    /\ ~dirty[last.obj]

\* C12: an insert of an empty batch, or an insert when no session is open
\* (before the first session or after a session was closed), returns 0, does
\* not raise, and leaves the buffer, the dirty flag and the file unchanged.
C12_InsertNoOp ==
    (last.op = "insert" /\ (last.new_df = <<>> \/ last.before.isNone)) =>
        /\ last.ret = 0
        /\ ~last.raised
        /\ batch_df[last.obj] = last.before
        /\ dirty[last.obj] = last.dirtyBefore
        /\ LastFile = last.fileBefore

\* a non-empty batch inserted after a session that changed the buffer was closed
C12_Witness ==
    /\ last.op = "insert"
    /\ last.before.isNone
    /\ last.new_df # <<>>
    /\ mutated[last.obj]
    /\ last.ret = 0
    /\ batch_df[last.obj].isNone

\* C13: a session opened on an absent file has an empty, clean buffer; closing
\* a clean session opened on an absent file leaves the file absent; with no
\* session open and no file, get_record_count() is 0, get_latest_timestamp()
\* is None and get_data_summary() has count 0 and no earliest or latest.
C13_AbsentFileIsEmpty ==
    /\ (last.op = "enter" /\ ~last.fileBefore.exists) =>
           batch_df[last.obj] = DataFrame(<<>>) /\ ~dirty[last.obj]
    /\ (last.op = "exit" /\ ~atOpen[last.obj].exists /\ ~last.dirtyBefore) =>
           ~LastFile.exists
    /\ (last.op = "count" /\ last.before.isNone /\ ~LastFile.exists) => last.ret = 0
    /\ (last.op = "latest" /\ last.before.isNone /\ ~LastFile.exists) => last.retTs = <<>>
    /\ (last.op = "summary" /\ last.before.isNone /\ ~LastFile.exists) =>
           /\ last.summary.count = 0
           /\ last.summary.earliest = <<>>
           /\ last.summary.latest = <<>>

\* a clean session that was opened on an absent file has been closed
C13_Witness ==
    /\ last.op = "exit"
    /\ ~atOpen[last.obj].exists
    /\ ~last.dirtyBefore
    /\ last.before = DataFrame(<<>>)
    /\ ~LastFile.exists

\* C14: opening a session on a file that exists but cannot be read raises and
\* opens nothing, and a session closed on such a path leaves the file as it was.
C14_UnreadableFilePropagates ==
    /\ (last.op = "enter" /\ last.fileBefore.exists /\ ~last.fileBefore.readable) =>
           last.raised /\ batch_df[last.obj].isNone
    /\ (last.op = "exit" /\ atOpen[last.obj].exists /\ ~atOpen[last.obj].readable) =>
           LastFile = atOpen[last.obj]

\* the rows the store holds: the buffer of the open session, else the file
StoreRows == IF batch_df[1].isNone THEN file[1].rows ELSE batch_df[1].rows

\* C15: fetch_date_range terminates whatever the endpoint answers: every
\* iteration after which the loop goes on has moved current_end to a strictly
\* earlier whole second; the loop runs only while current_end is later than
\* start_date; so the requests made never outnumber the seconds current_end
\* has moved back from end_date, and the operation ends after at most
\* end_date - start_date + 1 requests.
C15_FetchTerminates ==
    /\ [](fetch.pc = "loop" =>
             /\ fetch.current_end > fetch.start_date
             /\ fetch.total_requests <= fetch.end_date - fetch.current_end)
    /\ [](fetch.pc \in {"done", "raised"} =>
             fetch.total_requests <= Max0(fetch.end_date - fetch.start_date) + 1)
    /\ [][(fetch.pc = "loop" /\ fetch'.pc = "loop") =>
              fetch'.current_end < fetch.current_end]_vars

\* the loop ended because current_end reached start_date, after an HTTP
\* error and at least two non-empty pages
C15_Witness ==
    /\ fetch.pc = "done"
    /\ api.response = "page"
    /\ fetch.current_end <= fetch.start_date
    /\ api.errors >= 1
    /\ api.pages >= 2
    /\ fetch.end_date > fetch.start_date

\* C16: once the endpoint has answered 429, fetch_date_range has returned
\* without raising and made no request after that one; the 429 iteration
\* leaves the sink and the totals as they were, so the store holds every
\* timestamp of the earlier pages (and those it held when it was opened,
\* and no other); a 429 on the second request, the first
\* having succeeded, ends the operation with one page and two requests.
C16_RateLimitStops ==
    /\ [](api.limited_at > 0 =>
             /\ fetch.pc = "done"
             /\ api.response = "rate_limit"
             /\ fetch.total_requests = api.limited_at
             /\ ~exc[1]
             /\ fetch.storage =>
                    Timestamps(StoreRows)
                        = api.seen \cup Timestamps(read_parquet_or_empty(atOpen[1])))
    /\ []((api.limited_at = 2 /\ api.errors = 0) =>
             (api.pages = 1 /\ fetch.total_requests = 2))
    /\ [][api'.limited_at # api.limited_at =>
              /\ batch_df' = batch_df
              /\ dirty' = dirty
              /\ file' = file
              /\ fetch'.printed = fetch.printed
              /\ fetch'.total_inserted = fetch.total_inserted]_vars

\* the second request was answered 429, and the session has been closed with
\* the rows of the first page in the file
C16_Witness ==
    /\ api.limited_at = 2
    /\ api.pages = 1
    /\ fetch.pc = "done"
    /\ fetch.storage
    /\ batch_df[1].isNone
    /\ file[1].exists
    /\ file[1].rows # <<>>

\* C17: when the store started empty and the endpoint answered with pages each
\* older than all the pages before it and then with an empty page, the
\* operation ended at the empty page (one request more than the non-empty
\* pages), and total_inserted is the number of distinct timestamps of the
\* pages, which is the record count reported and the number of rows stored.
C17_TotalInsertedCountsDistinct ==
    (fetch.storage /\ fetch.pc = "done" /\ api.response = "empty" /\ api.monotone
        /\ api.errors = 0 /\ read_parquet_or_empty(atOpen[1]) = <<>>) =>
        /\ fetch.total_requests = api.pages + 1
        /\ fetch.total_inserted = Cardinality(api.seen)
        /\ fetch.record_count = fetch.total_inserted
        /\ Len(StoreRows) = fetch.total_inserted

\* two non-empty pages, the second older than the first, then the empty page
C17_Witness ==
    /\ fetch.storage
    /\ read_parquet_or_empty(atOpen[1]) = <<>>
    /\ fetch.pc = "done"
    /\ api.response = "empty"
    /\ api.monotone
    /\ api.errors = 0
    /\ api.pages = 2
    /\ fetch.total_requests = 3
    /\ fetch.total_inserted = 2

\* C18: an iteration whose request fails with an HTTP error other than 429
\* moves current_end back by one hour, raises nothing, leaves the sink, the
\* file and the totals as they were, and the loop goes on exactly when the
\* new current_end is still later than start_date.
C18_HttpErrorRetreats ==
    [][(api'.response = "http_error" /\ fetch'.total_requests = fetch.total_requests + 1) =>
          /\ fetch'.current_end = fetch.current_end - timedelta(1, 0, 0)
          /\ fetch'.pc = IF fetch'.current_end > fetch.start_date THEN "loop" ELSE "done"
          /\ batch_df' = batch_df
          /\ dirty' = dirty
          /\ file' = file
          /\ exc' = exc
          /\ fetch'.printed = fetch.printed
          /\ fetch'.total_inserted = fetch.total_inserted]_vars

\* a request failed after a page had been inserted; the rows are still in
\* the buffer and the loop goes on
C18_Witness ==
    /\ api.response = "http_error"
    /\ fetch.pc = "loop"
    /\ fetch.storage
    /\ api.pages >= 1
    /\ batch_df[1].rows # <<>>
    /\ fetch.total_inserted = Len(batch_df[1].rows)

\* C19: when fetch_date_range has returned against the endpoint that serves
\* the newest min(limit, n) readings of the window, the store holds every
\* reading of the endpoint between start_date and end_date, both included.
C19_BackfillComplete ==
    fetch.pc = "done" =>
        \A t \in api.readings :
            (fetch.start_date <= t /\ t <= fetch.end_date) =>
                t \in {StoreRows[i].timestamp : i \in Idx(StoreRows)}

\* C20: fetch_raw_data raises when some item of the payload lacks a canonical
\* component, and returns no row then; otherwise it returns one row per item,
\* in order, whose keys are exactly FIELDS, with the item's timestamp and the
\* value of each canonical component, the other components being dropped.
C20_RowsHaveCanonicalFields ==
    api.response = "fetched" =>
        LET data == api.reply.data
            comps(d) == {d.sensors[j].comp : j \in Idx(d.sensors)}
            incomplete == \E i \in Idx(data) : \E k \in Idx(VAL_FIELDS) : VAL_FIELDS[k] \notin comps(data[i])
        IN  IF incomplete
            THEN api.result.raised /\ api.result.data = <<>>
            ELSE /\ ~api.result.raised
                 /\ api.result.success
                 /\ Len(api.result.data) = Len(data)
                 /\ \A i \in Idx(data) :
                       /\ DOMAIN api.result.data[i] = FieldSet
                       /\ api.result.data[i].timestamp = data[i].timestamp
                       /\ \A j \in Idx(data[i].sensors) :
                             data[i].sensors[j].comp \in FieldSet =>
                                 api.result.data[i][data[i].sensors[j].comp] = data[i].sensors[j].value

\* a payload whose item carries every canonical component and both extra ones
C20_Witness ==
    /\ api.response = "fetched"
    /\ ~api.result.raised
    /\ Len(api.reply.data) >= 1
    /\ Len(api.reply.data[1].sensors) = Len(AllComps)
    /\ Len(api.result.data) = Len(api.reply.data)

\* C21: get_record_count() and get_latest_timestamp() answer from the buffer
\* when a session is open and from the file when none is, and neither changes
\* the buffer, the dirty flag or the file.
C21_ReadsUseBufferInSession ==
    (last.op \in {"count", "latest"}) =>
        LET df == IF last.before.isNone
                  THEN (IF LastFile.exists THEN LastFile.rows ELSE <<>>)
                  ELSE last.before.rows
        IN  /\ last.op = "count" => last.ret = Len(df)
            /\ last.op = "latest" =>
                   last.retTs = (IF df = <<>> THEN <<>>
                                 ELSE <<CHOOSE t \in Timestamps(df) : \A u \in Timestamps(df) : u <= t>>)
            /\ batch_df[last.obj] = last.before
            /\ dirty[last.obj] = last.dirtyBefore
            /\ LastFile = last.fileBefore

\* the count asked for in a dirty session differs from the file's row count
C21_Witness ==
    /\ last.op = "count"
    /\ ~last.before.isNone
    /\ dirty[last.obj]
    /\ last.ret = Len(last.before.rows)
    /\ last.ret # Len(LastFile.rows)

\* C22: the size get_data_summary() reports is the size of the file at the
\* path, whether no session is open or one is open with an empty or a
\* non-empty buffer.
C22_SummarySizeIsFileSize ==
    last.op = "summary" =>
        last.summary.file_size_mb = get_file_size(LastPath, LastFile, TRUE).size

\* C28: an insert that raised has left the buffer and the dirty flag as they
\* were before the call.
C28_RaisedInsertChangesNothing ==
    (last.op = "insert" /\ last.raised) =>
        /\ batch_df[last.obj] = last.before
        /\ dirty[last.obj] = last.dirtyBefore

\* the rejected batch had a row at a timestamp the buffer does not hold
C28_Witness ==
    /\ last.op = "insert"
    /\ last.raised
    /\ LastPolicy = "error"
    /\ Timestamps(last.new_df) \ Timestamps(last.before.rows) # {}
    /\ batch_df[last.obj] = last.before

\* C29: after an insert that returned, into a buffer with one row per
\* timestamp, the buffer has one row per timestamp and every timestamp it had
\* before; under 'warn' every row it had before is still in it.
C29_InsertKeepsTimestamps ==
    (InsertedIntoOpen /\ ~last.raised
        /\ Cardinality(Timestamps(last.before.rows)) = Len(last.before.rows)) =>
        LET df == batch_df[last.obj].rows
        IN  /\ Cardinality(Timestamps(df)) = Len(df)
            /\ Timestamps(last.before.rows) \subseteq Timestamps(df)
            /\ LastPolicy = "warn" => RowSet(last.before.rows) \subseteq RowSet(df)

\* under 'warn' the batch contradicted a stored row and brought a new timestamp
C29_Witness ==
    /\ InsertedIntoOpen
    /\ ~last.raised
    /\ LastPolicy = "warn"
    /\ conflict_found(last.before.rows \o last.new_df)
    /\ Timestamps(last.new_df) \ Timestamps(last.before.rows) # {}
    /\ RowSet(last.before.rows) \subseteq RowSet(batch_df[last.obj].rows)
    /\ Len(batch_df[last.obj].rows) > Len(last.before.rows)

\* C26: after a non-empty page was returned for the window ending at w (and
\* stored without a conflict being raised), with o the oldest timestamp of
\* the page: the next window end is o minus one second if o < w, and w minus
\* one minute otherwise; the from bound of the requests never changes during
\* the operation; and each request that follows another asks for a strictly
\* earlier to bound.
C26_NextWindowEnd ==
    /\ [][(fetch.pc = "loop" /\ api'.response = "page" /\ fetch'.pc # "raised") =>
              fetch'.current_end =
                  IF api'.oldest[1] < fetch.current_end
                  THEN api'.oldest[1] - timedelta(0, 0, 1)
                  ELSE fetch.current_end - timedelta(0, 1, 0)]_vars
    /\ [][fetch.pc = "loop" => fetch'.start_date = fetch.start_date]_vars
    /\ [][(fetch.pc = "loop" /\ fetch'.pc = "loop") =>
              fetch'.current_end < fetch.current_end]_vars

\* a page that made progress has moved the window end to one second before
\* its oldest timestamp, a page before it having made none
C26_Witness ==
    /\ fetch.pc \in {"loop", "done"}
    /\ api.response = "page"
    /\ api.stalls >= 1
    /\ api.pages >= 2
    /\ api.oldest # <<>>
    /\ fetch.current_end = api.oldest[1] - timedelta(0, 0, 1)

\* the batch the scripted object o inserts in SpecRace, its timestamps naive
RaceBatch(o) == to_naive_df(IF o = 1 THEN script.A ELSE script.B)

\* both scripted sessions have closed, each after an insert that returned
BothClosedAfterInsert ==
    /\ Len(script.closed) = 2
    /\ \A o \in Objs : script.returned[o] = 1

\* C23: two sessions on one path that were open together and each inserted
\* rows new to the file: after both have closed, the file's timestamps are
\* those of the initial file and of the batch of the session that closed
\* last, every initial row is still in the file, and every timestamp that
\* only the session that closed first inserted is missing.  Two sessions on
\* one path that were never open together: after both have closed, the file
\* holds every timestamp of the initial file and of both batches.
C23_OverlapLosesWrites ==
    BothClosedAfterInsert =>
        LET first == script.closed[1]
            second == script.closed[2]
            initial == read_parquet_or_empty(script.initial)
            stored == read_parquet_or_empty(file[1])
        IN  IF script.overlap
            THEN /\ Timestamps(stored) = Timestamps(initial) \cup Timestamps(RaceBatch(second))
                 /\ RowSet(initial) \subseteq RowSet(stored)
                 /\ \A t \in Timestamps(RaceBatch(first)) \ Timestamps(RaceBatch(second)) :
                        t \notin Timestamps(stored)
            ELSE Timestamps(stored) = Timestamps(initial) \cup Timestamps(RaceBatch(first))
                                          \cup Timestamps(RaceBatch(second))

\* two overlapping sessions have closed on a file that had rows, and a
\* timestamp the first to close inserted is not in the file
C23_Witness ==
    /\ BothClosedAfterInsert
    /\ script.overlap
    /\ script.initial.exists
    /\ script.initial.rows # <<>>
    /\ \E t \in Timestamps(RaceBatch(script.closed[1])) :
           t \notin Timestamps(read_parquet_or_empty(file[1]))

\* the ISO string of the date 20YY-MM-DD of the script and its time part
ExpectedIso ==
    <<"2", "0">> \o script.yy \o <<"-">> \o script.mm \o <<"-">> \o script.dd \o <<"T">> \o
        (IF script.time = <<>> THEN <<"0", "0", ":", "0", "0", ":", "0", "0">>
         ELSE <<"1", "6", ":">> \o (IF Len(script.time) = 3 THEN <<"0", "0">> ELSE <<"2", "0">>)
                  \o <<":", "0", "0">>)

\* C24: for every six-digit date YYMMDD, followed by nothing or by a time
\* part THH, THHMM or THH:MM, parse_flexible_datetime returns the ISO string
\* 20YY-MM-DDTHH:MM:00 (T00:00:00 without a time part), and it returns the
\* same for the eight-digit 20YYMMDD with the same time part.
C24_CenturyOptional ==
    /\ script.short # Unparsed => script.short = Returned(ExpectedIso)
    /\ script.long # Unparsed => script.long = Returned(ExpectedIso)

\* the stored records whose timestamps are from F to T, both included
InRange(F, T) ==
    {i \in Idx(file[1].rows) : to_datetime(F) <= file[1].rows[i].timestamp
                                   /\ file[1].rows[i].timestamp <= to_datetime(T)}

RECURSIVE SumCounts(_)
SumCounts(lines) == IF lines = <<>> THEN 0 ELSE Head(lines).count + SumCounts(Tail(lines))

\* C25: hist with --from-dt F and --to-dt T prints one line for each date
\* that has a stored record with F <= timestamp <= T and for no other date,
\* the dates ascending; the count of a line is the number of those records
\* on its date, and the counts add up to the number of records from F to T.
C25_HistCountsInclusiveRange ==
    (script.pc = "done" /\ script.from_dt # <<>> /\ script.to_dt # <<>>) =>
        LET in_range == InRange(script.from_dt[1], script.to_dt[1])
            rows == file[1].rows
        IN  /\ {script.out[k].date : k \in Idx(script.out)}
                   = {date(rows[i].timestamp) : i \in in_range}
            /\ \A k \in Idx(script.out) : \A l \in Idx(script.out) :
                   k < l => script.out[k].date < script.out[l].date
            /\ \A k \in Idx(script.out) :
                   script.out[k].count =
                       Cardinality({i \in in_range : date(rows[i].timestamp) = script.out[k].date})
            /\ SumCounts(script.out) = Cardinality(in_range)

\* hist has printed two lines for a range that has a record at each of its
\* bounds and leaves a stored record out on either side
C25_Witness ==
    /\ script.pc = "done"
    /\ script.from_dt # <<>>
    /\ script.to_dt # <<>>
    /\ Len(script.out) = 2
    /\ \E i \in Idx(file[1].rows) : file[1].rows[i].timestamp = to_datetime(script.from_dt[1])
    /\ \E i \in Idx(file[1].rows) : file[1].rows[i].timestamp = to_datetime(script.to_dt[1])
    /\ \E i \in Idx(file[1].rows) : file[1].rows[i].timestamp < to_datetime(script.from_dt[1])
    /\ \E i \in Idx(file[1].rows) : file[1].rows[i].timestamp > to_datetime(script.to_dt[1])

\* the cache file the call found holds a cached_at less than 3600 seconds
\* before the time of the call
FoundFreshCache ==
    /\ script.call.before.exists
    /\ script.call.before.parses
    /\ script.call.before.cached_at # <<>>
    /\ script.call.before.cached_at_is_number
    /\ script.call.at - script.call.before.cached_at[1] < 3600

\* C27: a call of get_devices, whatever other calls run beside it, makes no
\* API request exactly when force_refresh is false and the cache file it
\* finds exists, parses and has a cached_at less than 3600 seconds old; it
\* then returns the cache's device list (an empty list if the cache has none)
\* and leaves the cache file alone.  In every other case it makes one API
\* request and, the API answering with a device list, returns that list and
\* leaves, when it returns, a cache file holding that list and the time at
\* which the answer was there; if the request fails the error is raised and
\* the call leaves the cache file as it is.
C27_CacheUsedOnlyWhenFresh ==
    script.call.pc = "returned" =>
        IF ~script.call.force_refresh /\ FoundFreshCache
        THEN /\ script.call.requests = 0
             /\ ~script.call.raised
             /\ script.call.ret = <<IF script.call.before.devices = <<>> THEN <<>>
                                     ELSE script.call.before.devices[1]>>
             /\ script.cache_file = script.call.before
        ELSE /\ script.call.requests = 1
             /\ script.call.reply # <<>>
             /\ IF script.call.reply[1].raised
                THEN script.call.raised /\ script.cache_file = script.call.left
                ELSE /\ ~script.call.raised
                     /\ script.call.ret = <<script.call.reply[1].devices>>
                     /\ script.call.written_at >= script.call.at
                     /\ script.cache_file =
                            CacheData(<<script.call.written_at>>,
                                      <<script.call.reply[1].devices>>)

\* the batch of the call, its timestamps as the table holds them
DbBatch == to_naive_df(script.data)

\* a record of the batch has a timestamp that the table held before the call
\* with a differing sensor value
ConflictsWithStored ==
    \E i \in Idx(DbBatch) : \E r \in script.before : Differ(r, DbBatch[i])

\* what a call without a conflict leaves: the rows the table held and one
\* row per timestamp of the batch that it did not hold, the count returned
StoredNewRows ==
    /\ ~script.raised
    /\ script.before \subseteq script.table
    /\ script.table \ script.before \subseteq RowSet(DbBatch)
    /\ {r.timestamp : r \in script.table}
           = {r.timestamp : r \in script.before} \cup Timestamps(DbBatch)
    /\ Cardinality(script.table) = Cardinality({r.timestamp : r \in script.table})
    /\ script.ret = Cardinality(script.table) - Cardinality(script.before)

\* C30 as stated: Database.insert_air_data raises ValueError and leaves the
\* table as it was if a record of the batch has a timestamp already stored
\* with a differing sensor value; otherwise it stores one row per timestamp
\* not yet present, skips the records identical to a stored row and returns
\* the number of rows stored.
C30_AllOrNothing_AsStated ==
    script.pc = "done" =>
        IF ConflictsWithStored
        THEN script.raised /\ script.table = script.before
        ELSE StoredNewRows

\* C30: Database.insert_air_data raises ValueError and leaves the table as it
\* was, the records that preceded the conflicting one not stored, if a
\* record of the batch has a timestamp that is already stored, or that an
\* earlier record of the same batch carries, with a differing sensor value;
\* otherwise it stores one row per timestamp not yet present, skips the
\* records identical to a stored row or to an earlier record of the batch,
\* and returns the number of rows stored.
C30_AllOrNothing ==
    script.pc = "done" =>
        IF ConflictsWithStored \/ HasDifferingPair(DbBatch)
        THEN script.raised /\ script.table = script.before
        ELSE StoredNewRows

\* ValueError was raised for the second record of a batch whose first record
\* has a timestamp that the table does not hold
C30_Witness ==
    /\ script.pc = "done"
    /\ script.raised
    /\ script.before # {}
    /\ Len(DbBatch) >= 2
    /\ DbBatch[1].timestamp \notin {r.timestamp : r \in script.before}
    /\ \E r \in script.before : Differ(r, DbBatch[2])
====
